---- MODULE Spec2Model ----
(***************************************************************************)
(* A model of adfmt: the Flattener (params.FlatMap), the Collapser         *)
(* (params.SingleMap) and the payload formatter (formats).                 *)
(*                                                                         *)
(* Text is a sequence of one-character strings, so that joining, quoting,  *)
(* lexing and pattern matching are computed character by character.        *)
(* A Python value is a record [k |-> <type name>, v |-> <content>]:        *)
(*   bool/int/float : v is the value                                       *)
(*   str            : v is the text                                        *)
(*   list/tuple/set : v is the sequence of elements                        *)
(*   dict           : v is the sequence of <<key, value>> items in         *)
(*                    insertion order, keys distinct                       *)
(*   NoneType       : v is <<>>                                            *)
(***************************************************************************)
EXTENDS Integers, Sequences, FiniteSets, TLC

VARIABLES
    fm_arg,     \* FlatMap: the argument the caller passed to the constructor
    fm_nest,    \* FlatMap._nest
    fm_flat,    \* FlatMap._flat, a function from dotted path to zero value
    fm_state,   \* "none" (not constructed), "ready", "read", "raised"
    fm_exc,     \* the exception the last FlatMap call raised, or "none"
    fm_seen     \* what _nest held when flat was last read, Absent before

fm_vars == <<fm_arg, fm_nest, fm_flat, fm_state, fm_exc, fm_seen>>

VARIABLES
    sm_arg,     \* SingleMap: the content of the caller's object before the last call
    sm_inp,     \* the content of the caller's object now
    sm_params,  \* SingleMap._params
    sm_alias,   \* SingleMap._params is the caller's object itself
    sm_state,   \* "none", "ready", "returned", "raised" (by single), "failed"
    sm_exc,     \* the exception the last SingleMap call raised, or "none"
    sm_ret      \* what the last read of single returned

sm_vars == <<sm_arg, sm_inp, sm_params, sm_alias, sm_state, sm_exc, sm_ret>>

VARIABLES
    ty_arg,     \* _typing_by_check: the value given
    ty_ret      \* what it returned, Absent before the call

ty_vars == <<ty_arg, ty_ret>>

VARIABLES
    fp_call,    \* _formatted_params: [params, formatter, mapping, group] as given
    fp_state,   \* "none", "returned", "raised"
    fp_exc,     \* the exception the call raised, or "none"
    fp_ret      \* the str it returned

fp_vars == <<fp_call, fp_state, fp_exc, fp_ret>>

VARIABLES
    fo_args,    \* Formatter: the arguments of the constructor as given
    fo_inp,     \* the caller's success example object after the constructor
    fo_self,    \* the attributes of the Formatter
    fo_state,   \* "none", "constructed", "failed", "doc_returned", "doc_raised"
    fo_exc,     \* the exception the last call raised, or "none"
    fo_doc      \* the str the last read of doc returned

fo_vars == <<fo_args, fo_inp, fo_self, fo_state, fo_exc, fo_doc>>

VARIABLES
    fe_call,    \* _formatted_example: [obj, formatter, group] as given
    fe_state,   \* "none", "returned", "raised"
    fe_exc,     \* the exception the call raised, or "none"
    fe_ret      \* the str it returned

fe_vars == <<fe_call, fe_state, fe_exc, fe_ret>>

VARIABLES
    mu_args,    \* MulParamsFormatter: the arguments of the constructor as given
    mu_self,    \* the attributes of the MulParamsFormatter
    mu_state,   \* "none", "constructed", "failed", "doc_returned", "doc_raised"
    mu_exc,     \* the exception the last call raised, or "none"
    mu_doc,     \* the str the last read of doc returned
    du_args,    \* DocUnit: the arguments of the constructor as given
    du_self,    \* the attributes of the DocUnit, _doc_methods a set of texts
    du_state,   \* "none", "constructed", "failed", "returned", "raised", "output"
    du_exc,     \* the exception the last call raised, or "none"
    du_msg,     \* the parameter the InvalidValueError names, or the empty text
    du_ret,     \* the doc the last get or post returned, the text the last
                \* read of output returned
    du_produced,\* every [method, path, doc] a get or post returned so far
    fs_path,    \* _func_statement: the path two descriptors are constructed with
    fs_stub,    \* what formats.Formatter._func_statement returned for the
                \* descriptor of each method, Absent before
    fs_legacy   \* the same for format.Formatter._func_statement

mu_vars == <<mu_args, mu_self, mu_state, mu_exc, mu_doc>>

du_vars == <<du_args, du_self, du_state, du_exc, du_msg, du_ret, du_produced>>

fs_vars == <<fs_path, fs_stub, fs_legacy>>

fmt_vars == <<ty_vars, fp_vars, fo_vars, fe_vars, mu_vars, du_vars, fs_vars>>

vars == <<fm_vars, sm_vars, fmt_vars>>

----------------------------------------------------------------------------
(* Python values *)

PyBool(b) == [k |-> "bool", v |-> b]
PyInt(n) == [k |-> "int", v |-> n]
PyFloat(n) == [k |-> "float", v |-> n]
PyStr(s) == [k |-> "str", v |-> s]
PyList(s) == [k |-> "list", v |-> s]
PyTuple(s) == [k |-> "tuple", v |-> s]
PySet(s) == [k |-> "set", v |-> s]
PyDict(items) == [k |-> "dict", v |-> items]
PyNone == [k |-> "NoneType", v |-> <<>>]

Range(f) == {f[i] : i \in DOMAIN f}

\* no object: an attribute that has not been set, a call that returned nothing
Absent == [k |-> "absent", v |-> <<>>]

\* the empty dict {} as a function from keys to values
EmptyMap == [x \in {} |-> Absent]

\* d[key] = value on a dict held as a function
MapPut(d, key, value) ==
    [x \in (DOMAIN d) \cup {key} |-> IF x = key THEN value ELSE d[x]]

\* a Flattener that records the node's own value
TypeCall_keep(value) == value

\* type(value)(): the value a type's constructor returns without arguments
TypeCall(value) ==
    CASE value.k = "bool" -> PyBool(FALSE)
      [] value.k = "int" -> PyInt(0)
      [] value.k = "float" -> PyFloat(0)
      [] value.k = "str" -> PyStr(<<>>)
      [] value.k = "list" -> PyList(<<>>)
      [] value.k = "tuple" -> PyTuple(<<>>)
      [] value.k = "set" -> PySet(<<>>)
      [] value.k = "dict" -> PyDict(<<>>)
      [] value.k = "NoneType" -> PyNone

\* isinstance(value, cls) for the classes the code tests; bool is a subclass of int
IsInstance(value, cls) ==
    \/ value.k = cls
    \/ value.k = "bool" /\ cls = "int"

----------------------------------------------------------------------------
(* The payloads the caller may pass: every value of at most MaxNodes nodes *)
(* over two scalars and a few keys, and some payloads written out.         *)

MaxNodes == 4

Key(text) == PyStr(text)

\* the scalars of the enumerated payloads
Scalars == {PyInt(1), PyStr(<<"x">>)}

KeySeqs(keys, n) ==
    {s \in [1..n -> keys] : \A i, j \in 1..n : i # j => s[i] # s[j]}

Items(ks, f) == [i \in 1..Len(f) |-> <<ks[i], f[i]>>]

RECURSIVE ValuesOfSize(_, _), Forests(_, _)

\* the values of exactly n nodes whose dicts take their keys from keys
ValuesOfSize(n, keys) ==
    IF n = 1
    THEN Scalars \cup {PyList(<<>>), PyDict(<<>>)}
    ELSE LET fs == Forests(n - 1, keys)
         IN  {PyList(f) : f \in fs}
             \cup UNION {{PyDict(Items(ks, f)) : ks \in KeySeqs(keys, Len(f))}
                            : f \in fs}

\* the non-empty sequences of values of m nodes in all
Forests(m, keys) ==
    UNION {{<<v>> \o f : v \in ValuesOfSize(i, keys),
                         f \in (IF i = m THEN {<<>>} ELSE Forests(m - i, keys))}
              : i \in 1..m}

ValuesUpTo(n, keys) == UNION {ValuesOfSize(i, keys) : i \in 1..n}

\* keys of the payloads given to the Flattener: two plain keys and a key
\* holding the '.' separator
FlatKeys == {Key(<<"a">>), Key(<<"c">>), Key(<<"a", ".", "c">>)}

\* payloads of the other types, the empty key, and the payload of
\* test_nest_param_6's key e
FlatWritten ==
    { PyStr(<<>>), PyNone, PyInt(0), PyBool(FALSE),
      PyDict(<< <<Key(<<"a">>), PyBool(TRUE)>>, <<Key(<<"c">>), PyNone>> >>),
      PyDict(<< <<Key(<<"a">>), PyFloat(1)>>,
                <<Key(<<"c">>), PyTuple(<<PyInt(1), PyStr(<<"x">>)>>)>> >>),
      PyDict(<< <<Key(<<"a">>), PyList(<<PyBool(TRUE), PyNone>>)>> >>),
      PyDict(<< <<Key(<<>>), PyDict(<< <<Key(<<"a">>), PyInt(1)>> >>)>>,
                <<Key(<<"a">>), PyStr(<<"x">>)>> >>),
      PyDict(<< <<Key(<<"a">>), PyInt(0)>>, <<Key(<<"c">>), PyStr(<<>>)>> >>),
      PyDict(<< <<Key(<<"e">>), PyDict(<< <<Key(<<"e", "1">>), PyList(<<
          PyDict(<< <<Key(<<"e", "2">>), PyStr(<<"e", "2">>)>>,
                    <<Key(<<"e", "3">>), PyInt(3)>>,
                    <<Key(<<"e", "4">>), PyList(<<PyList(<<PyInt(4)>>),
                                                  PyList(<<PyInt(5)>>),
                                                  PyList(<<PyInt(6)>>)>>)>>,
                    <<Key(<<"e", "5">>),
                      PyDict(<< <<Key(<<"e", "6">>), PyStr(<<"e", "6">>)>> >>)>>
                 >>) >>)>> >>)>> >>) }

FlatInputs(n) == ValuesUpTo(n, FlatKeys) \cup FlatWritten

\* the most nodes of a value under a key that is not a plain word
ExoticNodes == 3

SingleKeys == {Key(<<"a">>), Key(<<"c">>)}

\* keys holding a double quote, two backslashes, and the text
\* "]=self._params["a
QuoteKey == Key(<<"a", "\"", "c">>)
BackslashKey == Key(<<"\\", "\\">>)
BracketKey ==
    Key(<<"\"", "]", "=", "s", "e", "l", "f", ".", "_", "p", "a", "r", "a",
          "m", "s", "[", "\"", "a">>)

OneTwo == <<PyInt(1), PyStr(<<"x">>)>>

\* what the entry beside such a key holds
Siblings ==
    Scalars \cup { PyList(<<>>), PyDict(<<>>), PyList(OneTwo),
                   PyDict(<< <<Key(<<"c">>), PyList(OneTwo)>> >>) }

\* payloads with one key that is not a plain word, at the top or below it
ExoticInputs(n) ==
    LET A == Key(<<"a">>)
        vs == ValuesUpTo(n, SingleKeys)
    IN  UNION {
          {PyDict(<< <<e, v>> >>) : v \in vs}
          \cup {PyDict(<< <<e, v>>, <<A, w>> >>) : v \in vs, w \in Siblings}
          \cup {PyDict(<< <<A, w>>, <<e, v>> >>) : v \in vs, w \in Siblings}
          : e \in {QuoteKey, BackslashKey, BracketKey}}
        \cup UNION {
          {PyDict(<< <<A, PyDict(<< <<e, v>> >>)>> >>) : v \in vs}
          \cup {PyDict(<< <<A, PyList(<<PyDict(<< <<e, v>> >>)>>)>> >>) : v \in vs}
          : e \in {QuoteKey, BackslashKey}}

\* payloads of the other types, and those of the documentation and the tests
SingleWritten ==
    { PyStr(<<>>), PyNone, PyInt(0), PyBool(FALSE), PyTuple(<<>>),
      PyDict(<< <<Key(<<"a">>), PyBool(TRUE)>>, <<Key(<<"c">>), PyNone>> >>),
      PyDict(<< <<Key(<<"a">>), PyTuple(OneTwo)>> >>),
      PyDict(<< <<Key(<<"a">>), PyList(<<PyTuple(OneTwo), PyInt(1)>>)>> >>),
      PyDict(<< <<Key(<<"a">>), PyTuple(<<PyList(OneTwo), PyInt(1)>>)>> >>),
      PyDict(<< <<Key(<<"a">>), PyTuple(<<PyDict(<< <<Key(<<"c">>),
                                    PyList(OneTwo)>> >>)>>)>> >>),
      PyDict(<< <<Key(<<"a">>), PyList(<<PyInt(1), PyInt(2), PyInt(3)>>)>> >>),
      PyDict(<< <<Key(<<"c">>), PyList(<<PyList(<<PyInt(1), PyInt(2), PyInt(3)>>),
                                         PyList(<<PyInt(4), PyInt(5), PyInt(6)>>),
                                         PyList(<<PyInt(7), PyInt(8), PyInt(9)>>)>>)>> >>) }

SingleInputs(n, m) ==
    ValuesUpTo(n, SingleKeys) \cup ExoticInputs(m) \cup SingleWritten

----------------------------------------------------------------------------
(* params.FlatMap *)

\* str(value) as an f-string puts it, for the values formatted here
Format(value) ==
    CASE value.k = "str" -> value.v
      [] value.k = "int" /\ value.v = 0 -> <<"0">>

RECURSIVE FlatMap_recur(_, _, _), FlatMap_recur_map(_, _, _),
          FlatMap_recur_items(_, _, _), FlatMap_recur_seq(_, _, _)

\* a Flattener that records leaves only, not the containers themselves
FlatMap_recur_leaves(name, value, flat) ==
    IF IsInstance(value, "dict")
    THEN FlatMap_recur_map(name, value, flat)
    ELSE IF IsInstance(value, "tuple") \/ IsInstance(value, "list")
         THEN FlatMap_recur_seq(name, value, flat)
         ELSE MapPut(flat, name, TypeCall(value))

\* a Flattener whose read starts from an empty result
FlatMap_recur_map_fresh(affix, mapping, flat) ==
    FlatMap_recur_items(affix, mapping.v, IF affix = <<>> THEN EmptyMap ELSE flat)

\* FlatMap._recur: the node's descendants first, then the node itself
FlatMap_recur(name, value, flat) ==
    LET f1 == IF IsInstance(value, "dict")
              THEN FlatMap_recur_map(name, value, flat)
              ELSE flat
        f2 == IF IsInstance(value, "tuple") \/ IsInstance(value, "list")
              THEN FlatMap_recur_seq(name, value, f1)
              ELSE f1
    IN  MapPut(f2, name, TypeCall(value))

\* the loop of FlatMap._recur_map over the items left
FlatMap_recur_items(affix, items, flat) ==
    IF items = <<>>
    THEN flat
    ELSE LET k == Head(items)[1]
             v == Head(items)[2]
             name == IF affix # <<>>
                     THEN affix \o <<".">> \o Format(k)
                     ELSE k.v
         IN  FlatMap_recur_items(affix, Tail(items),
                                 FlatMap_recur(name, v, flat))

FlatMap_recur_map(affix, mapping, flat) ==
    FlatMap_recur_items(affix, mapping.v, flat)

FlatMap_recur_seq(affix, sequence, flat) ==
    IF sequence.v # <<>>
    THEN FlatMap_recur(affix \o <<".", "0">>, sequence.v[1], flat)
    ELSE flat

\* FlatMap.__init__
FlatMap_init(params) ==
    /\ UNCHANGED <<sm_vars, fmt_vars>>
    /\ fm_arg' = params
    /\ fm_seen' = Absent
    /\ IF ~IsInstance(params, "dict")
       THEN /\ fm_state' = "raised"
            /\ fm_exc' = "ParamsTypeError"
            /\ UNCHANGED <<fm_nest, fm_flat>>
       ELSE /\ fm_nest' = params
            /\ fm_flat' = EmptyMap
            /\ fm_state' = "ready"
            /\ fm_exc' = "none"

\* the property FlatMap.flat
FlatMap_flat ==
    /\ fm_state \in {"ready", "read"}
    /\ fm_flat' = FlatMap_recur_map(<<>>, fm_nest, fm_flat)
    /\ fm_state' = "read"
    /\ fm_seen' = fm_nest
    /\ UNCHANGED <<fm_arg, fm_nest, fm_exc>>
    /\ UNCHANGED <<sm_vars, fmt_vars>>

\* the values the caller stores in the mapping between two reads
CallerValues ==
    {PyInt(1), PyDict(<< <<Key(<<"n">>), PyList(<<PyStr(<<"x">>)>>)>> >>)}

\* the caller's del params[key] on the mapping the FlatMap was given, which
\* is the object _nest names
Caller_del ==
    /\ fm_state \in {"ready", "read"}
    /\ \E i \in 1..Len(fm_nest.v) :
          fm_nest' = PyDict([j \in 1..(Len(fm_nest.v) - 1) |->
                                IF j < i THEN fm_nest.v[j] ELSE fm_nest.v[j + 1]])
    /\ UNCHANGED <<fm_arg, fm_flat, fm_state, fm_exc, fm_seen>>
    /\ UNCHANGED <<sm_vars, fmt_vars>>

\* the caller's params[key] = value on a key the mapping has
Caller_setitem ==
    /\ fm_state \in {"ready", "read"}
    /\ \E i \in 1..Len(fm_nest.v) : \E value \in CallerValues :
          fm_nest' = PyDict([fm_nest.v EXCEPT ![i] = <<fm_nest.v[i][1], value>>])
    /\ UNCHANGED <<fm_arg, fm_flat, fm_state, fm_exc, fm_seen>>
    /\ UNCHANGED <<sm_vars, fmt_vars>>

----------------------------------------------------------------------------
(* params.SingleMap.  __replace_to_flat writes the truncated sequence into *)
(* a copy of _params by building the text of an assignment statement from  *)
(* the location chain and handing it to exec.  The statement's target text *)
(* is lexed and parsed here as Python does; the text of flat is its repr,  *)
(* a literal that evaluates to an equal value for every payload here.      *)

\* key = f'"{k}"'
Quote(k) == PyStr(<<"\"">> \o Format(k) \o <<"\"">>)

RECURSIVE GetExpSubs(_)
GetExpSubs(chain) ==
    IF chain = <<>>
    THEN <<>>
    ELSE <<"[">> \o Format(Head(chain)) \o <<"]">> \o GetExpSubs(Tail(chain))

\* get_exp = 'p' + ''.join([f'[{key}]' for key in location_chain])
GetExp(chain) == <<"p">> \o GetExpSubs(chain)

\* the characters of the names that occur
NameChars == {"a", "c", "e", "f", "l", "m", "p", "r", "s", "_"}

\* the names that make the string literal after them a prefixed one
StringPrefixes == {<<"r">>, <<"f">>, <<"r", "f">>, <<"f", "r">>}

Tok(t, str) == [t |-> t, s |-> str]

RECURSIVE LexString(_, _, _), LexName(_, _, _), LexFrom(_, _, _)

\* a string literal opened before position j: [pos, s] once it is closed,
\* pos = 0 when the text ends inside it, pos = -1 for an escape not modelled
LexString(text, j, acc) ==
    IF j > Len(text)
    THEN [pos |-> 0, s |-> acc]
    ELSE IF text[j] = "\""
         THEN [pos |-> j + 1, s |-> acc]
         ELSE IF text[j] = "\\"
              THEN IF j + 1 > Len(text)
                   THEN [pos |-> 0, s |-> acc]
                   ELSE IF text[j + 1] \in {"\\", "\""}
                        THEN LexString(text, j + 2, Append(acc, text[j + 1]))
                        ELSE [pos |-> -1, s |-> acc]
              ELSE LexString(text, j + 1, Append(acc, text[j]))

LexName(text, j, acc) ==
    IF j <= Len(text) /\ text[j] \in NameChars
    THEN LexName(text, j + 1, Append(acc, text[j]))
    ELSE [pos |-> j, s |-> acc]

\* the tokens of text from position i on; the last token is "open" when the
\* text ends inside a string literal, "other" when it leaves what is modelled
LexFrom(text, i, toks) ==
    IF i > Len(text)
    THEN toks
    ELSE LET ch == text[i]
         IN  CASE ch = " " -> LexFrom(text, i + 1, toks)
               [] ch = "[" -> LexFrom(text, i + 1, Append(toks, Tok("[", <<>>)))
               [] ch = "]" -> LexFrom(text, i + 1, Append(toks, Tok("]", <<>>)))
               [] ch = "." -> LexFrom(text, i + 1, Append(toks, Tok(".", <<>>)))
               [] ch = "=" ->
                    IF i < Len(text) /\ text[i + 1] = "="
                    THEN Append(toks, Tok("other", <<>>))
                    ELSE LexFrom(text, i + 1, Append(toks, Tok("=", <<>>)))
               [] ch = "0" ->
                    IF i < Len(text) /\ text[i + 1] \in NameChars \cup {"0", "."}
                    THEN Append(toks, Tok("other", <<>>))
                    ELSE LexFrom(text, i + 1, Append(toks, Tok("num", <<"0">>)))
               [] ch = "\"" ->
                    IF i + 2 <= Len(text) /\ text[i + 1] = "\"" /\ text[i + 2] = "\""
                    THEN Append(toks, Tok("other", <<>>))
                    ELSE LET r == LexString(text, i + 1, <<>>)
                         IN  CASE r.pos = 0 -> Append(toks, Tok("open", <<>>))
                               [] r.pos = -1 -> Append(toks, Tok("other", <<>>))
                               [] OTHER -> LexFrom(text, r.pos,
                                                   Append(toks, Tok("str", r.s)))
               [] ch \in NameChars ->
                    LET r == LexName(text, i, <<>>)
                    IN  IF /\ r.s \in StringPrefixes
                           /\ r.pos <= Len(text)
                           /\ text[r.pos] = "\""
                        THEN Append(toks, Tok("other", <<>>))
                        ELSE LexFrom(text, r.pos, Append(toks, Tok("name", r.s)))
               [] OTHER -> Append(toks, Tok("other", <<>>))

Lex(text) == LexFrom(text, 1, <<>>)

RECURSIVE ParseFrom(_, _, _, _, _, _)

\* the targets of   target = target = ... = <flat>   where a target is p or
\* self._params followed by subscripts, each a string literal (adjacent
\* literals are joined) or 0.  [res, targets]: res is "ok", "SyntaxError" (a
\* string literal that the text does not close; a string literal followed
\* by a name or a number; a number followed by a string literal), or
\* "unmodelled" for a text outside these forms.
ParseFrom(toks, i, mode, cur, acc, done) ==
    LET bad(res) == [res |-> res, targets |-> <<>>]
        tok == toks[i]
    IN  IF i > Len(toks)
        THEN IF mode = "aftersub"
             THEN [res |-> "ok", targets |-> Append(done, cur)]
             ELSE bad("unmodelled")
        ELSE IF tok.t = "open" THEN bad("SyntaxError") ELSE
             CASE mode = "base" ->
                    CASE tok.t = "name" /\ tok.s = <<"p">> ->
                           ParseFrom(toks, i + 1, "needsub",
                                     [base |-> "p", subs |-> <<>>], <<>>, done)
                      [] tok.t = "name" /\ tok.s = <<"s", "e", "l", "f">> ->
                           ParseFrom(toks, i + 1, "dot", cur, <<>>, done)
                      [] OTHER -> bad("unmodelled")
               [] mode = "dot" ->
                    IF tok.t = "."
                    THEN ParseFrom(toks, i + 1, "attr", cur, <<>>, done)
                    ELSE bad("unmodelled")
               [] mode = "attr" ->
                    IF tok.t = "name"
                       /\ tok.s = <<"_", "p", "a", "r", "a", "m", "s">>
                    THEN ParseFrom(toks, i + 1, "needsub",
                                   [base |-> "self._params", subs |-> <<>>],
                                   <<>>, done)
                    ELSE bad("unmodelled")
               [] mode = "needsub" ->
                    IF tok.t = "["
                    THEN ParseFrom(toks, i + 1, "insub", cur, <<>>, done)
                    ELSE bad("unmodelled")
               [] mode = "aftersub" ->
                    IF tok.t = "["
                    THEN ParseFrom(toks, i + 1, "insub", cur, <<>>, done)
                    ELSE IF tok.t = "="
                         THEN ParseFrom(toks, i + 1, "base", cur, <<>>,
                                        Append(done, cur))
                         ELSE bad("unmodelled")
               [] mode = "insub" ->
                    IF tok.t = "str"
                    THEN ParseFrom(toks, i + 1, "instr", cur, tok.s, done)
                    ELSE IF tok.t = "num"
                         THEN ParseFrom(toks, i + 1, "innum", cur, <<>>, done)
                         ELSE bad("unmodelled")
               [] mode = "instr" ->
                    CASE tok.t = "str" ->
                           ParseFrom(toks, i + 1, "instr", cur, acc \o tok.s, done)
                      [] tok.t = "]" ->
                           ParseFrom(toks, i + 1, "aftersub",
                                     [cur EXCEPT !.subs = Append(@, PyStr(acc))],
                                     <<>>, done)
                      [] tok.t \in {"name", "num"} -> bad("SyntaxError")
                      [] OTHER -> bad("unmodelled")
               [] mode = "innum" ->
                    CASE tok.t = "]" ->
                           ParseFrom(toks, i + 1, "aftersub",
                                     [cur EXCEPT !.subs = Append(@, PyInt(0))],
                                     <<>>, done)
                      [] tok.t = "str" -> bad("SyntaxError")
                      [] OTHER -> bad("unmodelled")

ParseTargets(text) ==
    ParseFrom(Lex(text), 1, "base", [base |-> <<>>, subs |-> <<>>], <<>>, <<>>)

\* the position of key among the items of a dict, 0 when it is not a key
KeyIndex(items, key) ==
    IF \E i \in 1..Len(items) : items[i][1] = key
    THEN CHOOSE i \in 1..Len(items) : items[i][1] = key
    ELSE 0

Fail(exc) == [exc |-> exc, v |-> Absent]
Done(value) == [exc |-> "none", v |-> value]

\* obj[sub]
GetItem(obj, sub) ==
    CASE obj.k = "dict" ->
           LET i == KeyIndex(obj.v, sub)
           IN  IF i = 0 THEN Fail("KeyError") ELSE Done(obj.v[i][2])
      [] obj.k \in {"list", "tuple", "str"} ->
           IF ~IsInstance(sub, "int")
           THEN Fail("TypeError")
           ELSE IF obj.v = <<>>
                THEN Fail("IndexError")
                ELSE Done(IF obj.k = "str" THEN PyStr(<<obj.v[1]>>) ELSE obj.v[1])
      [] OTHER -> Fail("TypeError")

\* obj[sub] = value; v is the content of obj afterwards
SetItem(obj, sub, value) ==
    CASE obj.k = "dict" ->
           LET i == KeyIndex(obj.v, sub)
           IN  IF i = 0
               THEN Done(PyDict(Append(obj.v, <<sub, value>>)))
               ELSE Done(PyDict([obj.v EXCEPT ![i] = <<sub, value>>]))
      [] obj.k = "list" ->
           IF ~IsInstance(sub, "int")
           THEN Fail("TypeError")
           ELSE IF obj.v = <<>>
                THEN Fail("IndexError")
                ELSE Done(PyList([obj.v EXCEPT ![1] = value]))
      [] OTHER -> Fail("TypeError")

\* the content of obj once the object obj[sub] holds has become child
WithChild(obj, sub, child) ==
    IF obj.k = "dict"
    THEN PyDict([obj.v EXCEPT ![KeyIndex(obj.v, sub)] = <<sub, child>>])
    ELSE [obj EXCEPT !.v = [obj.v EXCEPT ![1] = child]]

RECURSIVE Store(_, _, _)

\* obj[subs[1]]...[subs[n]] = value, which changes the object reached by the
\* first n - 1 subscripts in place; v is the content of obj afterwards
Store(obj, subs, value) ==
    IF Len(subs) = 1
    THEN SetItem(obj, subs[1], value)
    ELSE LET got == GetItem(obj, subs[1])
         IN  IF got.exc # "none"
             THEN got
             ELSE LET r == Store(got.v, Tail(subs), value)
                  IN  IF r.exc # "none"
                      THEN r
                      ELSE Done(WithChild(obj, subs[1], r.v))

RECURSIVE Assign(_, _, _, _)

\* the targets of an assignment statement are stored to from left to right;
\* a store that raises leaves the earlier ones done.  st holds the objects in
\* play: par is self._params, root the dict the outermost loop of single
\* walks, inp the caller's object; parIsRoot and rootIsInp tell which of
\* them are one object, so that a store through one name shows through the
\* others.  p is the local of __replace_to_flat.
Assign(st, targets, i, value) ==
    IF i > Len(targets)
    THEN st
    ELSE LET t == targets[i]
             r == Store(IF t.base = "p" THEN st.p ELSE st.par, t.subs, value)
         IN  IF r.exc # "none"
             THEN [st EXCEPT !.exc = r.exc]
             ELSE Assign(IF t.base = "p"
                         THEN [st EXCEPT !.p = r.v]
                         ELSE [st EXCEPT
                                 !.par = r.v,
                                 !.root = IF st.parIsRoot THEN r.v ELSE @,
                                 !.inp = IF st.parIsRoot /\ st.rootIsInp
                                         THEN r.v ELSE @],
                         targets, i + 1, value)

\* exec(set_exp) where set_exp = f'{get_exp} = {flat}'
Exec(st, get_exp, flat) ==
    LET parsed == ParseTargets(get_exp)
    IN  IF parsed.res # "ok"
        THEN [st EXCEPT !.exc = parsed.res]
        ELSE Assign(st, parsed.targets, 1, flat)

\* SingleMap.__replace_to_flat: the copy p becomes _params when exec returns
SingleMap_replace_to_flat(st, location_chain, flat) ==
    LET r == Exec([st EXCEPT !.p = st.par], GetExp(location_chain), flat)
    IN  IF r.exc # "none"
        THEN [r EXCEPT !.p = Absent]
        ELSE [r EXCEPT !.par = r.p, !.parIsRoot = FALSE, !.p = Absent]

RECURSIVE SingleMap_recur(_, _, _, _), SingleMap_recur_items(_, _, _, _, _, _),
          SingleMap_recur_seq(_, _, _)

\* SingleMap._recur_map
SingleMap_recur_map(st, location_chain, mapping) ==
    SingleMap_recur_items(st, location_chain, mapping.v, 1, Len(mapping.v), FALSE)

\* SingleMap._recur
SingleMap_recur(st, location_chain, child, key) ==
    LET c == Append(location_chain, key)
        s1 == IF IsInstance(child, "dict")
              THEN SingleMap_recur_map(st, c, child)
              ELSE st
    IN  IF s1.exc = "none"
           /\ (IsInstance(child, "tuple") \/ IsInstance(child, "list"))
        THEN SingleMap_recur_seq(s1, c, child)
        ELSE s1

\* for k, v in mapping.items(), from the i-th item on.  The iterator raises
\* when the dict no longer has the size it had when the loop began.  The
\* outermost loop (live) reads the items of the root as they are now; a dict
\* below it is read as found on entry: in the payloads only the top holds a
\* key that makes a store go through self._params, and such a store changes
\* the root or what is under another key of it.
SingleMap_recur_items(st, location_chain, items, i, size, live) ==
    LET now == IF live THEN st.root.v ELSE items
    IN  IF st.exc # "none"
        THEN st
        ELSE IF Len(now) # size
             THEN [st EXCEPT !.exc = "RuntimeError"]
             ELSE IF i > size
                  THEN st
                  ELSE SingleMap_recur_items(
                           SingleMap_recur(st, location_chain, now[i][2],
                                           Quote(now[i][1])),
                           location_chain, items, i + 1, size, live)

\* SingleMap._recur_seq
SingleMap_recur_seq(st, location_chain, sequence) ==
    IF sequence.v = <<>>
    THEN st
    ELSE LET flat == [sequence EXCEPT !.v = <<sequence.v[1]>>]
             s1 == SingleMap_replace_to_flat(st, location_chain, flat)
         IN  IF s1.exc # "none"
             THEN s1
             ELSE SingleMap_recur(s1, location_chain, flat.v[1], PyInt(0))

\* a constructor that takes whatever it is given
SingleMap_init_unchecked(params) ==
    /\ UNCHANGED <<fm_vars, fmt_vars>>
    /\ sm_arg' = params
    /\ sm_inp' = params
    /\ sm_ret' = Absent
    /\ sm_params' = params
    /\ sm_alias' = TRUE
    /\ sm_state' = "ready"
    /\ sm_exc' = "none"

\* SingleMap.__init__
SingleMap_init(params) ==
    /\ UNCHANGED <<fm_vars, fmt_vars>>
    /\ sm_arg' = params
    /\ sm_inp' = params
    /\ sm_ret' = Absent
    /\ IF ~IsInstance(params, "dict")
       THEN /\ sm_state' = "failed"
            /\ sm_exc' = "ParamsTypeError"
            /\ UNCHANGED <<sm_params, sm_alias>>
       ELSE /\ sm_params' = params
            /\ sm_alias' = TRUE
            /\ sm_state' = "ready"
            /\ sm_exc' = "none"

\* the objects in play when single is read
SingleMap_entry ==
    [par |-> sm_params, root |-> sm_params, inp |-> sm_inp,
     parIsRoot |-> TRUE, rootIsInp |-> sm_alias, p |-> Absent, exc |-> "none"]

\* SingleMap.single
SingleMap_single ==
    /\ sm_state \in {"ready", "returned", "raised"}
    /\ UNCHANGED <<fm_vars, fmt_vars>>
    /\ LET st == SingleMap_recur_items(SingleMap_entry, <<>>, <<>>, 1,
                                       Len(sm_params.v), TRUE)
       IN  /\ sm_arg' = sm_inp
           /\ sm_inp' = st.inp
           /\ sm_params' = st.par
           /\ sm_alias' = (st.parIsRoot /\ st.rootIsInp)
           /\ sm_exc' = st.exc
           /\ sm_state' = IF st.exc = "none" THEN "returned" ELSE "raised"
           /\ sm_ret' = IF st.exc = "none" THEN st.par ELSE Absent

----------------------------------------------------------------------------
(* Text *)

RECURSIVE Join(_, _)

\* sep.join(rows), by halves
Join(rows, sep) ==
    IF rows = <<>>
    THEN <<>>
    ELSE IF Len(rows) = 1
         THEN rows[1]
         ELSE LET h == Len(rows) \div 2
              IN  Join(SubSeq(rows, 1, h), sep) \o sep
                  \o Join(SubSeq(rows, h + 1, Len(rows)), sep)

UpperCase ==
    { "A", "B", "C", "D", "E", "F", "G", "H", "I", "J", "K", "L", "M",
      "N", "O", "P", "Q", "R", "S", "T", "U", "V", "W", "X", "Y", "Z" }

LowerCase ==
    { "a", "b", "c", "d", "e", "f", "g", "h", "i", "j", "k", "l", "m",
      "n", "o", "p", "q", "r", "s", "t", "u", "v", "w", "x", "y", "z" }

Digits == {"0", "1", "2", "3", "4", "5", "6", "7", "8", "9"}

\* [A-Za-z], [\w] and \s on the characters of the model
Letters == UpperCase \cup LowerCase
WordChars == Letters \cup Digits \cup {"_"}
SpaceChars == {" ", "\n", "\t"}

\* the characters of code points 32 to 95 and 97 to 126, in that order
AsciiLow ==
    << " ", "!", "\"", "#", "$", "%", "&", "'", "(", ")", "*", "+",
       ",", "-", ".", "/", "0", "1", "2", "3", "4", "5", "6", "7", "8",
       "9", ":", ";", "<", "=", ">", "?", "@", "A", "B", "C", "D", "E",
       "F", "G", "H", "I", "J", "K", "L", "M", "N", "O", "P", "Q", "R",
       "S", "T", "U", "V", "W", "X", "Y", "Z", "[", "\\", "]", "^",
       "_" >>

AsciiHigh ==
    << "a", "b", "c", "d", "e", "f", "g", "h", "i", "j", "k", "l", "m",
       "n", "o", "p", "q", "r", "s", "t", "u", "v", "w", "x", "y", "z",
       "{", "|", "}", "~" >>

\* ord(ch)
Ord(ch) ==
    CASE ch = "\t" -> 9
      [] ch = "\n" -> 10
      [] \E i \in 1..Len(AsciiLow) : AsciiLow[i] = ch ->
           31 + CHOOSE i \in 1..Len(AsciiLow) : AsciiLow[i] = ch
      [] \E i \in 1..Len(AsciiHigh) : AsciiHigh[i] = ch ->
           96 + CHOOSE i \in 1..Len(AsciiHigh) : AsciiHigh[i] = ch

RECURSIVE StrLess(_, _)

\* a < b on two str: by code point, a proper prefix first
StrLess(a, b) ==
    IF b = <<>>
    THEN FALSE
    ELSE IF a = <<>>
         THEN TRUE
         ELSE IF a[1] = b[1]
              THEN StrLess(Tail(a), Tail(b))
              ELSE Ord(a[1]) < Ord(b[1])

----------------------------------------------------------------------------
(* json.dumps(obj, indent=4, ensure_ascii=False) *)

\* " " * n
Spaces(n) == [i \in 1..n |-> " "]

DigitText == <<"0", "1", "2", "3", "4", "5", "6", "7", "8", "9">>

RECURSIVE NatText(_)

\* str(n) for n >= 0
NatText(n) ==
    IF n < 10
    THEN <<DigitText[n + 1]>>
    ELSE NatText(n \div 10) \o <<DigitText[(n % 10) + 1]>>

\* str(n)
IntText(n) == IF n < 0 THEN <<"-">> \o NatText(-n) ELSE NatText(n)

\* a character inside a JSON string
JsonChar(ch) ==
    CASE ch = "\"" -> <<"\\", "\"">>
      [] ch = "\\" -> <<"\\", "\\">>
      [] ch = "\n" -> <<"\\", "n">>
      [] ch = "\t" -> <<"\\", "t">>
      [] OTHER -> <<ch>>

\* a str as a JSON string
JsonString(text) ==
    <<"\"">> \o Join([i \in 1..Len(text) |-> JsonChar(text[i])], <<>>) \o <<"\"">>

\* a dict key as a JSON string: a str as it is, a number, bool or None by
\* its JSON text; json.dumps raises TypeError on any other key
JsonKeyOk(key) == key.k \in {"str", "int", "float", "bool", "NoneType"}

JsonKey(key) ==
    CASE key.k = "str" -> JsonString(key.v)
      [] key.k = "int" -> JsonString(IntText(key.v))
      [] key.k = "float" -> JsonString(IntText(key.v) \o <<".", "0">>)
      [] key.k = "bool" ->
           JsonString(IF key.v THEN <<"t", "r", "u", "e">>
                               ELSE <<"f", "a", "l", "s", "e">>)
      [] key.k = "NoneType" -> JsonString(<<"n", "u", "l", "l">>)

\* whether json.dumps can write the value: a set, and a key that is a
\* tuple, make it raise TypeError
RECURSIVE JsonOk(_)

JsonOk(value) ==
    CASE value.k = "dict" ->
           \A i \in 1..Len(value.v) :
               JsonKeyOk(value.v[i][1]) /\ JsonOk(value.v[i][2])
      [] value.k \in {"list", "tuple"} ->
           \A i \in 1..Len(value.v) : JsonOk(value.v[i])
      [] value.k \in {"str", "int", "float", "bool", "NoneType"} -> TRUE
      [] OTHER -> FALSE

\* rows with ',' after every one but the last of a container's members: each
\* member is a sequence of rows and its last row takes the comma
WithCommas(members) ==
    [i \in 1..Len(members) |->
        IF i < Len(members)
        THEN [members[i] EXCEPT ![Len(members[i])] = @ \o <<",">>]
        ELSE members[i]]

RECURSIVE JsonRows(_, _)

\* the rows of the JSON text of a value that begins at nesting depth level;
\* the first row carries no indentation of its own
JsonRows(value, level) ==
    LET inner == Spaces(4 * (level + 1))
        close(ch) == <<Spaces(4 * level) \o <<ch>>>>
    IN  CASE value.k = "dict" ->
               IF value.v = <<>>
               THEN << <<"{", "}">> >>
               ELSE LET member(i) ==
                            LET rows == JsonRows(value.v[i][2], level + 1)
                            IN  [rows EXCEPT ![1] =
                                    inner \o JsonKey(value.v[i][1])
                                          \o <<":", " ">> \o @]
                    IN  << <<"{">> >>
                        \o Join(WithCommas([i \in 1..Len(value.v) |-> member(i)]),
                                <<>>)
                        \o close("}")
          [] value.k \in {"list", "tuple"} ->
               IF value.v = <<>>
               THEN << <<"[", "]">> >>
               ELSE LET member(i) ==
                            LET rows == JsonRows(value.v[i], level + 1)
                            IN  [rows EXCEPT ![1] = inner \o @]
                    IN  << <<"[">> >>
                        \o Join(WithCommas([i \in 1..Len(value.v) |-> member(i)]),
                                <<>>)
                        \o close("]")
          [] value.k = "str" -> <<JsonString(value.v)>>
          [] value.k = "int" -> <<IntText(value.v)>>
          [] value.k = "float" -> <<IntText(value.v) \o <<".", "0">>>>
          [] value.k = "bool" ->
               << IF value.v THEN <<"t", "r", "u", "e">>
                             ELSE <<"f", "a", "l", "s", "e">> >>
          [] value.k = "NoneType" -> << <<"n", "u", "l", "l">> >>

\* _json_dumps_cn(obj) for a value it can write
json_dumps_cn(obj) == Join(JsonRows(obj, 0), <<"\n">>)

----------------------------------------------------------------------------
(* enums.ParamTyping, enums.ApiDoc *)

ParamTyping_Str == <<"S", "t", "r", "i", "n", "g">>
ParamTyping_Num == <<"N", "u", "m", "b", "e", "r">>
ParamTyping_Bool == <<"B", "o", "o", "l", "e", "a", "n">>
ParamTyping_Obj == <<"O", "b", "j", "e", "c", "t">>
ParamTyping_List == <<"A", "r", "r", "a", "y">>

\* a member of ParamTyping as a value
ParamTyping(text) == [k |-> "ParamTyping", v |-> text]

\* ParamTyping.formatted
ParamTyping_formatted(typing) == <<"{">> \o typing \o <<"}">>

ApiDoc_Header == <<"@", "a", "p", "i", "H", "e", "a", "d", "e", "r">>
ApiDoc_Param == <<"@", "a", "p", "i", "P", "a", "r", "a", "m">>
ApiDoc_Success == <<"@", "a", "p", "i", "S", "u", "c", "c", "e", "s", "s">>
ApiDoc_Error == <<"@", "a", "p", "i", "E", "r", "r", "o", "r">>

\* ApiDoc.param
ApiDoc_param(value, typing, name, explain, group) ==
    Join(<<value, group, ParamTyping_formatted(typing), name, explain>>, <<" ">>)

\* enums.RequestMethod and its members
RequestMethod(text) == [k |-> "RequestMethod", v |-> text]
RequestMethod_Get == RequestMethod(<<"g", "e", "t">>)
RequestMethod_Post == RequestMethod(<<"p", "o", "s", "t">>)

\* RequestMethod.formatted
RequestMethod_formatted(method) == <<"{">> \o method.v \o <<"}">>

\* enums.Permission and its members, v the member's name and value
Permission(name, value) == [k |-> "Permission", v |-> <<name, value>>]
Permission_Nothing == Permission(<<"N", "o", "t", "h", "i", "n", "g">>, <<>>)
Permission_Admin == Permission(<<"A", "d", "m", "i", "n">>, <<"U", "s", "e", "r", " ", "a", "d", "m", "i", "n", " ", "i", "s", " ", "r", "e", "q", "u", "i", "r", "e", "d">>)

\* a member of a subclass of BasePermission that the user wrote
UserPermission(name, value) == [k |-> "UserPermission", v |-> <<name, value>>]

\* isinstance(perm, Permission): the members of the built-in class only
IsPermission(perm) == perm.k = "Permission"

\* isinstance(perm, BasePermission)
IsBasePermission(perm) == perm.k \in {"Permission", "UserPermission"}

\* BasePermission.explain
BasePermission_explain(permit) == permit.v[2]

\* ch.lower()
LowerChar(ch) == IF ch \in UpperCase THEN AsciiHigh[Ord(ch) - 64] ELSE ch

\* text.lower()
Lower(text) == [i \in 1..Len(text) |-> LowerChar(text[i])]

ApiDoc_Declare == <<"@", "a", "p", "i">>
ApiDoc_Perm == <<"@", "a", "p", "i", "P", "e", "r", "m", "i", "s", "s", "i", "o", "n">>
ApiDoc_Group == <<"@", "a", "p", "i", "G", "r", "o", "u", "p">>
ApiDoc_Desc == <<"@", "a", "p", "i", "D", "e", "s", "c", "r", "i", "p", "t", "i", "o", "n">>

\* the name of the member of ApiDoc of a value
ApiDoc_name(value) ==
    CASE value = ApiDoc_Header -> <<"H", "e", "a", "d", "e", "r">>
      [] value = ApiDoc_Param -> <<"P", "a", "r", "a", "m">>
      [] value = ApiDoc_Success -> <<"S", "u", "c", "c", "e", "s", "s">>
      [] value = ApiDoc_Error -> <<"E", "r", "r", "o", "r">>

\* ApiDoc.statement
ApiDoc_statement(value, method, path, title) ==
    Join(<<value, RequestMethod_formatted(method), path, title>>, <<" ">>)

\* ApiDoc.instruction
ApiDoc_instruction(value, permit) ==
    Join(<<value, Lower(permit.v[1]), BasePermission_explain(permit)>>, <<" ">>)

\* ApiDoc.explain without the test of the content
ApiDoc_explain_always(value, content) == value \o <<" ">> \o content

\* ApiDoc.explain
ApiDoc_explain(value, content) ==
    IF content # <<>> THEN value \o <<" ">> \o content ELSE <<>>

\* ApiDoc.example
ApiDoc_example(value, content, name) ==
    value \o <<"E", "x", "a", "m", "p", "l", "e", " ", "{", "j", "s", "o", "n", "}", " ">> \o name \o <<"\n">> \o content

----------------------------------------------------------------------------
(* formats._typing_by_check *)

\* a classification that tests for a number first
typing_by_check_number_first(param) ==
    CASE IsInstance(param, "int") \/ IsInstance(param, "float") -> ParamTyping_Num
      [] param.k = "str" -> ParamTyping_Str
      [] param.k \in {"list", "tuple", "set"} -> ParamTyping_List
      [] OTHER -> ParamTyping_Obj

\* _typing_by_check: v is True or v is False holds of the two bool objects
\* only; the branches are tried in the order of the code
typing_by_check(param) ==
    IF param.k = "bool"
    THEN ParamTyping_Bool
    ELSE IF IsInstance(param, "int") \/ IsInstance(param, "float")
         THEN ParamTyping_Num
         ELSE IF IsInstance(param, "str")
              THEN ParamTyping_Str
              ELSE IF \/ IsInstance(param, "list")
                      \/ IsInstance(param, "tuple")
                      \/ IsInstance(param, "set")
                   THEN ParamTyping_List
                   ELSE IF IsInstance(param, "dict")
                        THEN ParamTyping_Obj
                        ELSE ParamTyping_Obj

----------------------------------------------------------------------------
(* formats._DOC_FMT_PATTERN, _sort_with_abc, _formatted_params *)

RECURSIVE RunEnd(_, _, _)

\* where the longest run of characters of cls that starts at i ends, i - 1
\* when line[i] is not one
RunEnd(line, i, cls) ==
    IF i <= Len(line) /\ line[i] \in cls
    THEN RunEnd(line, i + 1, cls)
    ELSE i - 1

At(line, i, cls) == i <= Len(line) /\ line[i] \in cls

NoMatch == [ok |-> FALSE, key |-> <<>>]

\* ({[A-Za-z]+})\s([\w]+)\s at i: group 4 when it matches.  A run that is
\* followed by a character outside its class matches at its full length only.
MatchTail(line, i) ==
    LET e == RunEnd(line, i + 1, Letters)
        w == RunEnd(line, e + 3, WordChars)
    IN  IF /\ At(line, i, {"{"})
           /\ e >= i + 1
           /\ At(line, e + 1, {"}"})
           /\ At(line, e + 2, SpaceChars)
           /\ w >= e + 3
           /\ At(line, w + 1, SpaceChars)
        THEN [ok |-> TRUE, key |-> SubSeq(line, e + 3, w)]
        ELSE NoMatch

\* \s? and the rest at i: the space is taken when the rest matches after it
MatchAfterGroup(line, i) ==
    IF At(line, i, SpaceChars) /\ MatchTail(line, i + 1).ok
    THEN MatchTail(line, i + 1)
    ELSE MatchTail(line, i)

\* (\(.+\))? and the rest at i: .+ takes all it can of the line and gives
\* back until a ')' follows with the rest matching after it, so the group
\* ends at the last such ')'; without one the group is left out
MatchGroup(line, i) ==
    LET ends == {j \in (i + 2)..Len(line) :
                    /\ line[j] = ")"
                    /\ \A k \in (i + 1)..(j - 1) : line[k] # "\n"
                    /\ MatchAfterGroup(line, j + 1).ok}
    IN  IF At(line, i, {"("}) /\ ends # {}
        THEN MatchAfterGroup(line, 1 + CHOOSE j \in ends : \A k \in ends : k <= j)
        ELSE MatchAfterGroup(line, i)

\* re.match(_DOC_FMT_PATTERN, line): whether it matches, and group(4)
DocFmtMatch(line) ==
    LET e == RunEnd(line, 5, Letters)
    IN  IF /\ Len(line) >= 4
           /\ SubSeq(line, 1, 4) = <<"@", "a", "p", "i">>
           /\ e >= 5
           /\ At(line, e + 1, SpaceChars)
        THEN MatchGroup(line, e + 2)
        ELSE NoMatch

\* the orders list.sort(key=...) may leave the lines in: keys ascending, lines
\* of one key in the order they had before, which is the order a set gives
\* them in and may be any
SortedOrders(lines) ==
    LET n == Cardinality(lines)
    IN  {s \in [1..n -> lines] :
            /\ \A i, j \in 1..n : i # j => s[i] # s[j]
            /\ \A i, j \in 1..n :
                  i < j => ~StrLess(DocFmtMatch(s[j]).key, DocFmtMatch(s[i]).key)}

\* _sort_with_abc on the list of a set of lines: the outcomes.  The key of a
\* line the pattern does not match is None.group(4), an AttributeError.
sort_with_abc(lines) ==
    IF \E line \in lines : ~DocFmtMatch(line).ok
    THEN {[exc |-> "AttributeError", seq |-> <<>>]}
    ELSE {[exc |-> "none", seq |-> s] : s \in SortedOrders(lines)}

FillIn == <<"r", "e", "a", "d", "y", " ", "t", "o", " ", "f", "i", "l", "l", " ", "i", "n">>

\* mapping.get(param, 'ready to fill in'), the lookup a function of the name
Explain(mapping, param) ==
    IF param \in DOMAIN mapping THEN mapping[param] ELSE FillIn

\* params.items() as a set of <<name, value>>, of a dict whose keys are str
DictItems(params) ==
    IF params.k = "flat"
    THEN {<<name, params.v[name]>> : name \in DOMAIN params.v}
    ELSE {<<it[1].v, it[2]>> : it \in Range(params.v)}

\* _formatted_params: the outcomes [exc, text].  params is a dict whose keys
\* are str.
formatted_params(params, formatter, mapping, group) ==
    LET fmt_group == IF group # <<>> THEN <<"(">> \o group \o <<")">> ELSE group
        parts == {ApiDoc_param(formatter, typing_by_check(it[2]), it[1],
                               Explain(mapping, it[1]), fmt_group)
                     : it \in DictItems(params)}
    IN  {[exc |-> r.exc,
          text |-> IF r.exc = "none" THEN Join(r.seq, <<"\n">>) ELSE <<>>]
            : r \in sort_with_abc(parts)}

----------------------------------------------------------------------------
(* formats: _lines_with_indent, _formatted_example, _fixed_path,           *)
(* _parts_from_split                                                       *)

RECURSIVE Split(_, _)

\* text.split(sep) for a separator of one character, by halves: the last row
\* of the first half goes on in the first row of the second
Split(text, sep) ==
    IF \A i \in 1..Len(text) : text[i] # sep
    THEN <<text>>
    ELSE IF Len(text) = 1
         THEN << <<>>, <<>> >>
         ELSE LET h == Len(text) \div 2
                  a == Split(SubSeq(text, 1, h), sep)
                  b == Split(SubSeq(text, h + 1, Len(text)), sep)
              IN  SubSeq(a, 1, Len(a) - 1) \o <<a[Len(a)] \o b[1]>> \o Tail(b)

\* _lines_with_indent that adds nothing
lines_without_indent(content, indent) == content

\* _lines_with_indent
lines_with_indent(content, indent) ==
    LET rows == Split(content, "\n")
    IN  Join([i \in 1..Len(rows) |-> Spaces(indent) \o rows[i]], <<"\n">>)

\* bool(obj) of a payload
Truthy(obj) ==
    CASE obj.k \in {"dict", "list", "tuple", "set", "str", "flat", "lookup"} ->
            obj.v # <<>>
      [] obj.k \in {"int", "float"} -> obj.v # 0
      [] obj.k = "bool" -> obj.v
      [] OTHER -> FALSE

\* an example block whose label always takes the group
formatted_example_grouped(obj, formatter, group) ==
    IF ~Truthy(obj)
    THEN [exc |-> "none", text |-> <<>>]
    ELSE IF ~JsonOk(obj)
         THEN [exc |-> "TypeError", text |-> <<>>]
         ELSE [exc |-> "none",
               text |-> ApiDoc_example(
                            formatter, lines_with_indent(json_dumps_cn(obj), 4),
                            Join(<<Lower(ApiDoc_name(formatter)), <<"e", "x", "a", "m", "p", "l", "e">>, group>>,
                                 <<"-">>))]

\* _formatted_example: [exc, text]
formatted_example(obj, formatter, group) ==
    IF ~Truthy(obj)
    THEN [exc |-> "none", text |-> <<>>]
    ELSE IF ~JsonOk(obj)
         THEN [exc |-> "TypeError", text |-> <<>>]
         ELSE LET lines == lines_with_indent(json_dumps_cn(obj), 4)
                  names == <<Lower(ApiDoc_name(formatter)), <<"e", "x", "a", "m", "p", "l", "e">>>>
                           \o (IF group # <<>> THEN <<group>> ELSE <<>>)
              IN  [exc |-> "none",
                   text |-> ApiDoc_example(formatter, lines, Join(names, <<"-">>))]

\* the characters of text at the positions of keep, in order
KeepAt(text, keep) ==
    [n \in 1..Cardinality(keep) |->
        text[CHOOSE i \in keep : Cardinality({j \in keep : j < i}) = n - 1]]

\* re.sub(r'/+', '/', path)
SingleSlashes(path) ==
    KeepAt(path, {i \in 1..Len(path) :
                     ~(path[i] = "/" /\ i > 1 /\ path[i - 1] = "/")})

\* _fixed_path with a pattern that wants the leading '/' only
fixed_path_any_rest(path) ==
    LET replaced == SingleSlashes(path)
        marks == {i \in 1..Len(replaced) : replaced[i] = "?"}
        stop == IF marks = {}
                THEN Len(replaced) + 1
                ELSE CHOOSE i \in marks : \A j \in marks : i <= j
    IN  IF Len(replaced) >= 1 /\ replaced[1] = "/"
        THEN [exc |-> "none", path |-> SubSeq(replaced, 1, stop - 1)]
        ELSE [exc |-> "NotLegalPathError", path |-> <<>>]

\* _fixed_path that keeps the query string (group 0 in place of group 1).
fixed_path_with_query(path) ==
    LET replaced == SingleSlashes(path)
    IN  IF Len(replaced) >= 2 /\ replaced[1] = "/" /\ replaced[2] # "?"
        THEN [exc |-> "none", path |-> replaced]
        ELSE [exc |-> "NotLegalPathError", path |-> <<>>]

\* _fixed_path: [exc, path].  _URL_PATH_PATTERN wants a '/' and at least one
\* character that is not '?' after it; group 1 runs to the first '?'.
fixed_path(path) ==
    LET replaced == SingleSlashes(path)
        marks == {i \in 1..Len(replaced) : replaced[i] = "?"}
        stop == IF marks = {}
                THEN Len(replaced) + 1
                ELSE CHOOSE i \in marks : \A j \in marks : i <= j
    IN  IF Len(replaced) >= 2 /\ replaced[1] = "/" /\ replaced[2] # "?"
        THEN [exc |-> "none", path |-> SubSeq(replaced, 1, stop - 1)]
        ELSE [exc |-> "NotLegalPathError", path |-> <<>>]

\* path.strip('/')
StripSlashes(path) ==
    LET inside == {i \in 1..Len(path) : path[i] # "/"}
    IN  IF inside = {}
        THEN <<>>
        ELSE SubSeq(path, CHOOSE i \in inside : \A j \in inside : i <= j,
                          CHOOSE i \in inside : \A j \in inside : j <= i)

\* re.match(_FUNC_NAME_PATTERN, x): the pattern is matched at the start of x
\* and need not reach its end
FuncNameMatch(x) == x # <<>> /\ x[1] \in Letters \cup {"_"}

\* _parts_from_split
parts_from_split(path) == SelectSeq(Split(StripSlashes(path), "/"), FuncNameMatch)

\* the values _typing_by_check is given
TypingInputs ==
    ValuesUpTo(3, SingleKeys)
    \cup { PyBool(TRUE), PyBool(FALSE), PyInt(0), PyFloat(0), PyFloat(1),
           PyStr(<<>>), PyNone, PyTuple(<<>>), PyTuple(OneTwo), PySet(<<>>),
           PySet(OneTwo), PyList(<<PyBool(TRUE)>>),
           PyDict(<< <<Key(<<"a">>), PyBool(FALSE)>> >>) }

\* the most entries of a parameter mapping
MaxFields == 2

\* field names: word tokens, a name with a space and a dotted path
WordNames == {<<"a">>, <<"b">>, <<"B">>, <<"a", "_", "1">>}
FieldNames == WordNames \cup {<<"a", " ", "b">>, <<"a", ".", "0">>}

FieldValues == {PyInt(1), PyStr(<<>>), PyList(<<>>)}

\* the parameter mappings of at most n entries, in every insertion order
ParamMaps(n) ==
    UNION {{PyDict([i \in 1..m |-> <<PyStr(ks[i]), vs[i]>>])
               : ks \in KeySeqs(FieldNames, m), vs \in [1..m -> FieldValues]}
              : m \in 0..n}

\* explanation lookups: none; two that make the lines of a and of "a b" the
\* same text; one whose text for a goes on with a ')' and a type and name
\* of its own; an empty explanation
Lookups ==
    { EmptyMap,
      [x \in {<<"a">>, <<"a", " ", "b">>} |->
          IF x = <<"a">> THEN <<"b", " ", "c">> ELSE <<"c">>],
      [x \in {<<"a">>} |-> <<"x", ")", " ", "{", "A", "}", " ", "z", "z", " ", "q">>],
      [x \in {<<"b">>} |-> <<>>] }

Groups == {<<>>, <<"g">>}

FormatCalls(n) ==
    [params : ParamMaps(n), formatter : {ApiDoc_Param, ApiDoc_Success},
     mapping : Lookups, group : Groups]

\* a call of _typing_by_check
typing_by_check_call ==
    /\ ty_ret = Absent
    /\ ty_ret' = ParamTyping(typing_by_check(ty_arg))
    /\ UNCHANGED <<ty_arg, fm_vars, sm_vars, fp_vars, fo_vars, fe_vars, mu_vars, du_vars, fs_vars>>

\* the objects _formatted_example is given: empty and falsy ones, mappings,
\* sequences and scalars, a str with characters JSON escapes, keys that are
\* not str, a set and a key that is a tuple
ExampleObjects ==
    { PyNone, PyBool(FALSE), PyInt(0), PyFloat(0), PyStr(<<>>), PyList(<<>>),
      PyTuple(<<>>), PyDict(<<>>), PySet(<<>>),
      PyDict(<<<<PyStr(<<"t", "e", "s", "t">>), PyStr(<<"t", "e", "s", "t">>)>>>>),
      PyDict(<<<<PyStr(<<"i", "t", "e", "m", "s">>), PyList(<<PyDict(<<<<PyStr(<<"i", "d">>), PyInt(1)>>, <<PyStr(<<"n", "a", "m", "e">>), PyStr(<<"a">>)>>>>), PyDict(<<<<PyStr(<<"i", "d">>), PyInt(2)>>, <<PyStr(<<"n", "a", "m", "e">>), PyStr(<<"b">>)>>>>)>>)>>>>),
      PyDict(<<<<PyStr(<<"a">>), PyInt(1)>>, <<PyStr(<<"b">>), PyList(<<PyInt(1), PyStr(<<"x">>), PyList(<<>>)>>)>>, <<PyStr(<<"c">>), PyDict(<<>>)>>, <<PyStr(<<"d">>), PyNone>>, <<PyStr(<<"e">>), PyBool(TRUE)>>>>),
      PyDict(<<<<PyStr(<<"k">>), PyStr(<<"a", "\"", "b", "\\", "c">>)>>, <<PyStr(<<"n">>), PyInt(-12)>>>>),
      PyDict(<<<<PyInt(1), PyTuple(<<PyInt(1), PyInt(2)>>)>>>>),
      PyList(<<PyInt(1), PyDict(<<<<PyStr(<<"a">>), PyStr(<<"x">>)>>>>)>>),
      PyTuple(<<PyInt(1), PyInt(2)>>),
      PyStr(<<"x">>), PyInt(5), PyBool(TRUE),
      PyFloat(2),
      PySet(<<PyInt(1)>>),
      PyDict(<< <<PyStr(<<"a">>), PySet(<<PyInt(1)>>)>> >>),
      PyDict(<< <<PyTuple(<<PyInt(1)>>), PyInt(1)>> >>) }

ExampleCalls ==
    [obj : ExampleObjects,
     formatter : {ApiDoc_Header, ApiDoc_Param, ApiDoc_Success, ApiDoc_Error},
     group : Groups]

\* a call of _formatted_example
formatted_example_call(call) ==
    /\ LET r == formatted_example(call.obj, call.formatter, call.group)
       IN  /\ fe_exc' = r.exc
           /\ fe_ret' = IF r.exc = "none" THEN PyStr(r.text) ELSE Absent
           /\ fe_state' = IF r.exc = "none" THEN "returned" ELSE "raised"
    /\ fe_call' = call
    /\ UNCHANGED <<fm_vars, sm_vars, ty_vars, fp_vars, fo_vars, mu_vars, du_vars, fs_vars>>

formatted_example_new ==
    /\ fe_state = "none"
    /\ \E call \in ExampleCalls : formatted_example_call(call)

\* a call of _formatted_params
formatted_params_call(call) ==
    /\ \E r \in formatted_params(call.params, call.formatter, call.mapping,
                                 call.group) :
          /\ fp_exc' = r.exc
          /\ fp_ret' = IF r.exc = "none" THEN PyStr(r.text) ELSE Absent
          /\ fp_state' = IF r.exc = "none" THEN "returned" ELSE "raised"
    /\ fp_call' = call
    /\ UNCHANGED <<fm_vars, sm_vars, ty_vars, fo_vars, fe_vars, mu_vars, du_vars, fs_vars>>

formatted_params_new ==
    /\ fp_state = "none"
    /\ \E call \in FormatCalls(MaxFields) : formatted_params_call(call)

----------------------------------------------------------------------------
(* formats.Formatter.  The two classes its constructor builds are not in    *)
(* params.py; they stand for the Flattener and the Collapser of it.         *)

\* the dict a Flattener built, held as a function from its keys
PyFlat(flat) == [k |-> "flat", v |-> flat]

\* the mapping argument, a lookup of explanations by name
PyLookup(mapping) == [k |-> "lookup", v |-> mapping]

\* NestParam(params).single: [exc, flat]
NestParam_single(params) ==
    IF ~IsInstance(params, "dict")
    THEN [exc |-> "ParamsTypeError", flat |-> EmptyMap]
    ELSE [exc |-> "none", flat |-> FlatMap_recur_map(<<>>, params, EmptyMap)]

\* SlightParam(params).slim: the objects in play when it ends, par the dict
\* returned, inp the caller's object, exc the exception raised or "none"
SlightParam_slim(params) ==
    IF ~IsInstance(params, "dict")
    THEN [par |-> Absent, root |-> Absent, inp |-> params, parIsRoot |-> TRUE,
          rootIsInp |-> FALSE, p |-> Absent, exc |-> "ParamsTypeError"]
    ELSE SingleMap_recur_items(
             [par |-> params, root |-> params, inp |-> params,
              parIsRoot |-> TRUE, rootIsInp |-> TRUE, p |-> Absent,
              exc |-> "none"],
             <<>>, <<>>, 1, Len(params.v), TRUE)

\* value or {}
OrEmptyDict(value) == IF Truthy(value) THEN value ELSE PyDict(<<>>)

\* the body of Formatter.__init__ with the path _fixed_path gave, the outcome
\* slim of collapsing the success example and the outcome single of
\* flattening the success params: [exc, self, inp]
Formatter_attributes(args, path, slim, single) ==
    IF path.exc # "none"
    THEN [exc |-> path.exc, self |-> Absent, inp |-> args.success_example]
    ELSE IF args.method.k # "RequestMethod" \/ ~IsBasePermission(args.perm)
    THEN [exc |-> "EnumMemberError", self |-> Absent, inp |-> args.success_example]
    ELSE IF slim.exc # "none"
    THEN [exc |-> slim.exc, self |-> Absent, inp |-> slim.inp]
    ELSE IF single.exc # "none"
    THEN [exc |-> single.exc, self |-> Absent, inp |-> slim.inp]
    ELSE [exc |-> "none",
          inp |-> slim.inp,
          self |-> [path |-> path.path,
                    method |-> args.method,
                    title |-> args.title,
                    desc |-> args.desc,
                    group |-> args.group,
                    header_group |-> args.header_group,
                    params_group |-> args.params_group,
                    success_group |-> args.success_group,
                    error_group |-> args.error_group,
                    perm |-> args.perm,
                    map |-> IF Truthy(args.mapping)
                            THEN args.mapping.v
                            ELSE EmptyMap,
                    header |-> OrEmptyDict(args.header),
                    params |-> OrEmptyDict(args.params),
                    error_example |-> OrEmptyDict(args.error_example),
                    error_params |-> OrEmptyDict(args.error_params),
                    success_example |-> slim.par,
                    success_params |-> PyFlat(single.flat)]]

\* Formatter.__init__: [exc, self, inp].  The arguments are objects of their
\* own, the success example is not the object of another argument.
Formatter_construct(args) ==
    Formatter_attributes(
        args,
        fixed_path(args.path),
        IF Truthy(args.success_example)
        THEN SlightParam_slim(args.success_example)
        ELSE [par |-> PyDict(<<>>), root |-> Absent, inp |-> args.success_example,
              parIsRoot |-> FALSE, rootIsInp |-> FALSE, p |-> Absent,
              exc |-> "none"],
        IF Truthy(args.success_params)
        THEN NestParam_single(args.success_params)
        ELSE [exc |-> "none", flat |-> EmptyMap])

\* Formatter._func_statement
Formatter_func_statement(self) ==
    <<"d", "e", "f", " ">> \o Join(parts_from_split(self.path), <<"_">>) \o <<"(", ")", " ", "-", ">", " ", "N", "o", "n", "e", ":">>

\* Formatter._fmt_quotes
Formatter_fmt_quotes == <<"\"", "\"", "\"">>

\* Formatter._annotations: the outcomes [exc, text].  The parts are made in
\* the order of the list, the first that raises ends the call.  The four
\* sections are the header, the params, the success and the error one, each
\* with the payload of its lines, the payload of its example and its group.
Formatter_annotations(self) ==
    LET sections ==
            << [formatter |-> ApiDoc_Header, params |-> self.header,
                obj |-> self.header, group |-> self.header_group],
               [formatter |-> ApiDoc_Param, params |-> self.params,
                obj |-> self.params, group |-> self.params_group],
               [formatter |-> ApiDoc_Success, params |-> self.success_params,
                obj |-> self.success_example, group |-> self.success_group],
               [formatter |-> ApiDoc_Error, params |-> self.error_params,
                obj |-> self.error_example, group |-> self.error_group] >>
        fmt_params == [i \in 1..4 |->
                          formatted_params(sections[i].params, sections[i].formatter,
                                           self.map, sections[i].group)]
        fmt_eg == [i \in 1..4 |->
                      formatted_example(sections[i].obj, sections[i].formatter,
                                        sections[i].group)]
        str(text) == [exc |-> "none", text |-> text]
        made(lines) ==
            << str(Formatter_fmt_quotes),
               str(ApiDoc_statement(ApiDoc_Declare, self.method, self.path,
                                    self.title)),
               str(ApiDoc_explain(ApiDoc_Desc, self.desc)),
               str(ApiDoc_explain(ApiDoc_Group, self.group)),
               str(ApiDoc_instruction(ApiDoc_Perm, self.perm)),
               lines[1], fmt_eg[1], lines[2], fmt_eg[2],
               lines[3], fmt_eg[3], lines[4], fmt_eg[4],
               str(Formatter_fmt_quotes) >>
        raising(parts) == {i \in 1..Len(parts) : parts[i].exc # "none"}
        first(parts) == CHOOSE i \in raising(parts) : \A j \in raising(parts) : i <= j
        check(part) == part.text # <<>>
        texts(parts) == LET kept == SelectSeq(parts, check)
                        IN  [i \in 1..Len(kept) |-> kept[i].text]
        fmt(parts) ==
            IF raising(parts) # {}
            THEN [exc |-> parts[first(parts)].exc, text |-> <<>>]
            ELSE [exc |-> "none",
                  text |-> lines_with_indent(Join(texts(parts), <<"\n">>), 4)]
    IN  { fmt(made(lines)) :
            lines \in {c \in [1..4 -> UNION {fmt_params[i] : i \in 1..4}] :
                          \A i \in 1..4 : c[i] \in fmt_params[i]} }

\* Formatter.doc: the outcomes [exc, text]
Formatter_doc_outcomes(self) ==
    { IF a.exc # "none"
      THEN a
      ELSE [exc |-> "none",
            text |-> lines_with_indent(
                         Formatter_func_statement(self) \o <<"\n">> \o a.text, 4)]
        : a \in Formatter_annotations(self) }

\* the payload of a list of users: a sequence of mappings under one key
ItemsPayload ==
    PyDict(<<<<PyStr(<<"i", "t", "e", "m", "s">>), PyList(<<PyDict(<<<<PyStr(<<"i", "d">>), PyInt(1)>>, <<PyStr(<<"n", "a", "m", "e">>), PyStr(<<"a">>)>>>>), PyDict(<<<<PyStr(<<"i", "d">>), PyInt(2)>>, <<PyStr(<<"n", "a", "m", "e">>), PyStr(<<"b">>)>>>>)>>)>>>>)

\* a payload without containers
SuccessPayloads_flat ==
    PyDict(<<<<PyStr(<<"i", "d">>), PyInt(1)>>, <<PyStr(<<"n", "a", "m", "e">>), PyStr(<<"a">>)>>>>)

\* success payloads: none, an empty one, flat ones, nested ones, a sequence
\* of scalars, a tuple that holds a list, a value that is no dict
SuccessPayloads ==
    { PyNone,
      PyDict(<<>>),
      ItemsPayload,
      SuccessPayloads_flat,
      PyDict(<<<<PyStr(<<"o", "k">>), PyBool(TRUE)>>>>),
      PyDict(<<<<PyStr(<<"a">>), PyDict(<<<<PyStr(<<"b">>), PyInt(1)>>>>)>>>>),
      PyDict(<<<<PyStr(<<"t", "a", "g", "s">>), PyList(<<PyStr(<<"x">>), PyStr(<<"y">>)>>)>>>>),
      PyDict(<<<<PyStr(<<"a">>), PyTuple(<<PyList(<<PyInt(1), PyStr(<<"x">>)>>), PyInt(1)>>)>>>>),
      PyList(<<PyInt(1)>>) }

\* header, params and error payloads: none, flat ones in either order of the
\* names, a name that is not one word, a nested one
OtherPayloads ==
    { PyNone,
      PyDict(<<<<PyStr(<<"a">>), PyInt(1)>>>>),
      PyDict(<<<<PyStr(<<"b">>), PyStr(<<"x">>)>>, <<PyStr(<<"a">>), PyBool(TRUE)>>>>),
      PyDict(<<<<PyStr(<<"a", ".", "0">>), PyInt(1)>>>>),
      PyDict(<<<<PyStr(<<"a">>), PyList(<<PyDict(<<<<PyStr(<<"b">>), PyInt(1)>>>>), PyDict(<<<<PyStr(<<"b">>), PyInt(2)>>>>)>>)>>>>) }

Paths ==
    { <<"/", "u", "s", "e", "r", "s", "/", "l", "i", "s", "t">>, <<"/", "/", "u", "s", "e", "r", "s", "/", "/", "l", "i", "s", "t", "?", "x", "=", "1">>, <<"u", "s", "e", "r", "s">>, <<"/", "?">>,
      <<"/", "u", "s", "e", "r", "-", "l", "i", "s", "t", "/", "2", "/", "_", "x", "/">>, <<"/", "/", "f", "o", "o", "/", "/", "b", "a", "r", "?", "x", "=", "1">>, <<"f", "o", "o">>, <<"/">>,
      <<"/", "a", "?", "b", "?", "c">>, <<"?", "a">>, <<"/", "u", "s", "e", "r", "-", "l", "i", "s", "t", "/", "a", ".", "b", "/", "{", "i", "d", "}", "/", "1", "2", "3", "/", "x">>, <<"/", "_", "a", "1", "/", "/", "/", "B", "_", "2", "/">>,
      <<"/", "/", "/">>, <<"/", "?", "x", "=", "1">> }

Methods == {RequestMethod_Get, RequestMethod_Post, PyStr(<<"g", "e", "t">>)}

Permits ==
    { Permission_Nothing, Permission_Admin,
      UserPermission(<<"S", "t", "a", "f", "f">>, <<"s", "t", "a", "f", "f", " ", "o", "n", "l", "y">>), PyStr(<<"a", "d", "m", "i", "n">>) }

Mappings ==
    { PyNone,
      PyLookup([x \in {<<"a">>, <<"i", "t", "e", "m", "s", ".", "0", ".", "i", "d">>} |->
                   IF x = <<"a">> THEN <<"t", "h", "e", " ", "a">> ELSE <<"i", "d", " ", "o", "f", " ", "t", "h", "e", " ", "u", "s", "e", "r">>]) }

\* params whose names are two words with the same first word, the token the
\* lines are sorted by
SameTokenPayloads ==
    { PyDict(<<<<PyStr(<<"a", " ", "b">>), PyInt(1)>>, <<PyStr(<<"a", " ", "c">>), PyStr(<<"x">>)>>>>),
      PyDict(<<<<PyStr(<<"a", " ", "c">>), PyStr(<<"x">>)>>, <<PyStr(<<"a", " ", "b">>), PyInt(1)>>, <<PyStr(<<"b">>), PyBool(TRUE)>>>>) }

Descs == {<<>>, <<"A", "l", "l", " ", "u", "s", "e", "r", "s", ",", " ", "b", "y", " ", "n", "a", "m", "e">>}

\* a descriptor of the list of users with nothing else given
PlainArgs ==
    [path |-> <<"/", "u", "s", "e", "r", "s", "/", "l", "i", "s", "t">>, method |-> RequestMethod_Get,
     title |-> <<"L", "i", "s", "t", " ", "u", "s", "e", "r", "s">>, group |-> <<>>, desc |-> <<>>,
     perm |-> Permission_Nothing, mapping |-> PyNone,
     header |-> PyNone, header_group |-> <<>>,
     params |-> PyNone, params_group |-> <<>>,
     success_example |-> PyNone, success_params |-> PyNone,
     success_group |-> <<>>,
     error_example |-> PyNone, error_params |-> PyNone, error_group |-> <<>>]

\* the descriptors the caller constructs: the plain one with other paths,
\* methods, permissions, groups and descriptions; with success payloads; with
\* header, params and error payloads; with params of one sort token
FormatterArgs ==
    { [PlainArgs EXCEPT !.path = path, !.method = method, !.perm = perm,
                        !.group = group, !.desc = desc]
        : path \in Paths, method \in Methods, perm \in Permits, group \in Groups,
          desc \in Descs }
    \cup
    { [PlainArgs EXCEPT !.success_example = example, !.success_params = params,
                        !.success_group = group, !.mapping = mapping]
        : example \in SuccessPayloads, params \in SuccessPayloads,
          group \in Groups, mapping \in Mappings }
    \cup
    { [PlainArgs EXCEPT !.header = header, !.params = params,
                        !.error_example = example, !.error_params = error,
                        !.success_example = success, !.success_params = success,
                        !.params_group = group, !.error_group = group]
        : header \in {PyNone, PyDict(<<<<PyStr(<<"b">>), PyStr(<<"x">>)>>, <<PyStr(<<"a">>), PyBool(TRUE)>>>>)},
          params \in OtherPayloads, example \in OtherPayloads,
          error \in OtherPayloads,
          success \in {PyNone, ItemsPayload, SuccessPayloads_flat},
          group \in Groups }
    \cup
    { [PlainArgs EXCEPT !.params = params, !.params_group = group]
        : params \in SameTokenPayloads, group \in Groups }

\* the state after a constructor call with the outcome made
Formatter_made(args, made) ==
    /\ fo_self' = made.self
    /\ fo_inp' = made.inp
    /\ fo_exc' = made.exc
    /\ fo_state' = IF made.exc = "none" THEN "constructed" ELSE "failed"
    /\ fo_args' = args
    /\ fo_doc' = Absent
    /\ UNCHANGED <<fm_vars, sm_vars, ty_vars, fp_vars, fe_vars, mu_vars, du_vars, fs_vars>>

\* Formatter(...)
Formatter_init(args) == Formatter_made(args, Formatter_construct(args))

\* a read of the property Formatter.doc
Formatter_doc ==
    /\ fo_state \in {"constructed", "doc_returned", "doc_raised"}
    /\ \E r \in Formatter_doc_outcomes(fo_self) :
          /\ fo_exc' = r.exc
          /\ fo_doc' = IF r.exc = "none" THEN PyStr(r.text) ELSE Absent
          /\ fo_state' = IF r.exc = "none" THEN "doc_returned" ELSE "doc_raised"
    /\ UNCHANGED <<fo_args, fo_self, fo_inp>>
    /\ UNCHANGED <<fm_vars, sm_vars, ty_vars, fp_vars, fe_vars, mu_vars, du_vars, fs_vars>>

----------------------------------------------------------------------------
(* formats.MulParamsFormatter.  mul_groups is None or a list of str,       *)
(* mul_items None or a list of dicts whose keys are str; an attribute      *)
(* _mul_<key> is a sequence of payloads, _mul_<key>_groups one of texts.   *)

\* m.get(key, default) of a dict whose keys are str
dict_get(m, key, default) ==
    LET hits == {i \in 1..Len(m.v) : m.v[i][1] = PyStr(key)}
    IN  IF hits = {} THEN default ELSE m.v[CHOOSE i \in hits : TRUE][2]

\* MulParamsFormatter.__items_by_key for a list mul_items
MulParamsFormatter_items_by_key(mul_items, key) ==
    [i \in 1..Len(mul_items.v) |-> dict_get(mul_items.v[i], key, PyDict(<<>>))]

\* MulParamsFormatter.__groups_for_key for a list mul_items: [exc, groups].
\* The group of the item is read under 'header_group' whatever the key is.
MulParamsFormatter_groups_for_key(mul_groups, mul_items, key) ==
    LET n == Len(mul_items.v)
        groups == IF Truthy(mul_groups)
                  THEN mul_groups.v
                  ELSE [i \in 1..n |-> PyStr(key \o <<"-">> \o NatText(i))]
        g(i) == LET g1 == dict_get(mul_items.v[i], <<"h", "e", "a", "d", "e", "r", "_", "g", "r", "o", "u", "p">>, PyStr(<<>>))
                    g2 == dict_get(mul_items.v[i], <<"g", "r", "o", "u", "p">>, PyStr(<<>>))
                IN  IF Truthy(g1) THEN g1 ELSE IF Truthy(g2) THEN g2 ELSE groups[i]
    IN  IF n > Len(groups)
        THEN [exc |-> "IndexError", groups |-> <<>>]
        ELSE [exc |-> "none", groups |-> [i \in 1..n |-> g(i).v]]

\* the arguments MulParamsFormatter.__init__ hands to Formatter.__init__, the
\* others at their defaults
MulParamsFormatter_super_args(args) ==
    [path |-> args.path, method |-> args.method, title |-> args.title,
     group |-> args.group, desc |-> args.desc, perm |-> args.perm,
     mapping |-> args.mapping,
     header |-> PyNone, header_group |-> <<>>,
     params |-> PyNone, params_group |-> <<>>,
     success_example |-> PyNone, success_params |-> PyNone,
     success_group |-> <<>>,
     error_example |-> PyNone, error_params |-> PyNone, error_group |-> <<>>]

\* MulParamsFormatter.__set_mul_attrs after the assignments of __init__, with
\* the attributes base of Formatter.__init__ and the groups of the sections
MulParamsFormatter_set_mul_attrs(args, base, header, params, success, error) ==
    IF \E r \in {header, params, success, error} : r.exc # "none"
    THEN [exc |-> "IndexError", self |-> Absent]
    ELSE [exc |-> "none",
          self |-> [path |-> base.path, method |-> base.method,
                    title |-> base.title, desc |-> base.desc,
                    group |-> base.group, perm |-> base.perm, map |-> base.map,
                    mul_groups |-> args.mul_groups,
                    mul_items |-> args.mul_items,
                    mul_header |->
                        MulParamsFormatter_items_by_key(args.mul_items, <<"h", "e", "a", "d", "e", "r">>),
                    mul_params |->
                        MulParamsFormatter_items_by_key(args.mul_items, <<"p", "a", "r", "a", "m", "s">>),
                    mul_success_params |->
                        MulParamsFormatter_items_by_key(args.mul_items, <<"s", "u", "c", "c", "e", "s", "s", "_", "p", "a", "r", "a", "m", "s">>),
                    mul_success_example |->
                        MulParamsFormatter_items_by_key(args.mul_items, <<"s", "u", "c", "c", "e", "s", "s", "_", "e", "x", "a", "m", "p", "l", "e">>),
                    mul_error_params |->
                        MulParamsFormatter_items_by_key(args.mul_items, <<"e", "r", "r", "o", "r", "_", "p", "a", "r", "a", "m", "s">>),
                    mul_error_example |->
                        MulParamsFormatter_items_by_key(args.mul_items, <<"e", "r", "r", "o", "r", "_", "e", "x", "a", "m", "p", "l", "e">>),
                    mul_header_groups |-> header.groups,
                    mul_params_groups |-> params.groups,
                    mul_success_groups |-> success.groups,
                    mul_error_groups |-> error.groups]]

\* the body of MulParamsFormatter.__init__ after super().__init__ gave made:
\* [exc, self].  The loop of __items_by_key over mul_items None is a
\* TypeError.
MulParamsFormatter_attributes(args, made) ==
    IF made.exc # "none"
    THEN [exc |-> made.exc, self |-> Absent]
    ELSE IF /\ Truthy(args.mul_groups)
            /\ Truthy(args.mul_items)
            /\ 0 < Len(args.mul_groups.v)
            /\ Len(args.mul_groups.v) < Len(args.mul_items.v)
    THEN [exc |-> "NotEnoughGroupsError", self |-> Absent]
    ELSE IF args.mul_items.k = "NoneType"
    THEN [exc |-> "TypeError", self |-> Absent]
    ELSE MulParamsFormatter_set_mul_attrs(
             args, made.self,
             MulParamsFormatter_groups_for_key(args.mul_groups, args.mul_items, <<"h", "e", "a", "d", "e", "r">>),
             MulParamsFormatter_groups_for_key(args.mul_groups, args.mul_items, <<"p", "a", "r", "a", "m", "s">>),
             MulParamsFormatter_groups_for_key(args.mul_groups, args.mul_items, <<"s", "u", "c", "c", "e", "s", "s">>),
             MulParamsFormatter_groups_for_key(args.mul_groups, args.mul_items, <<"e", "r", "r", "o", "r">>))

\* MulParamsFormatter.__init__: [exc, self]
MulParamsFormatter_construct(args) ==
    MulParamsFormatter_attributes(
        args, Formatter_construct(MulParamsFormatter_super_args(args)))

\* the ways to take one outcome of each set of a sequence of sets
RECURSIVE OneOfEach(_)
OneOfEach(sets) ==
    IF sets = <<>>
    THEN {<<>>}
    ELSE {<<h>> \o t : h \in Head(sets), t \in OneOfEach(Tail(sets))}

\* _fmt_mul_header, _fmt_mul_params, _fmt_mul_success, _fmt_mul_error: the
\* sets of outcomes of the items, in the order of the items
MulParamsFormatter_fmt_mul(mul, formatter, mapping, groups) ==
    [i \in 1..Len(mul) |-> formatted_params(mul[i], formatter, mapping, groups[i])]

\* _fmt_mul_header_eg, _fmt_mul_params_eg, _fmt_mul_success_eg,
\* _fmt_mul_error_eg
MulParamsFormatter_fmt_mul_eg(mul, formatter, groups) ==
    [i \in 1..Len(mul) |-> {formatted_example(mul[i], formatter, groups[i])}]

\* MulParamsFormatter._annotations: the outcomes [exc, text].  The parts are
\* made in the order of the list, the first that raises ends the call.
MulParamsFormatter_annotations(self) ==
    LET str(text) == {[exc |-> "none", text |-> text]}
        made ==
            << str(Formatter_fmt_quotes),
               str(ApiDoc_statement(ApiDoc_Declare, self.method, self.path,
                                    self.title)),
               str(ApiDoc_explain(ApiDoc_Desc, self.desc)),
               str(ApiDoc_explain(ApiDoc_Group, self.group)),
               str(ApiDoc_instruction(ApiDoc_Perm, self.perm)) >>
            \o MulParamsFormatter_fmt_mul(self.mul_header, ApiDoc_Header,
                                          self.map, self.mul_header_groups)
            \o MulParamsFormatter_fmt_mul_eg(self.mul_header, ApiDoc_Header,
                                             self.mul_header_groups)
            \o MulParamsFormatter_fmt_mul(self.mul_params, ApiDoc_Param,
                                          self.map, self.mul_params_groups)
            \o MulParamsFormatter_fmt_mul_eg(self.mul_params, ApiDoc_Param,
                                             self.mul_params_groups)
            \o MulParamsFormatter_fmt_mul(self.mul_success_params, ApiDoc_Success,
                                          self.map, self.mul_success_groups)
            \o MulParamsFormatter_fmt_mul_eg(self.mul_success_example, ApiDoc_Success,
                                             self.mul_success_groups)
            \o MulParamsFormatter_fmt_mul(self.mul_error_params, ApiDoc_Error,
                                          self.map, self.mul_error_groups)
            \o MulParamsFormatter_fmt_mul_eg(self.mul_error_example, ApiDoc_Error,
                                             self.mul_error_groups)
            \o << str(Formatter_fmt_quotes) >>
        raising(parts) == {i \in 1..Len(parts) : parts[i].exc # "none"}
        first(parts) == CHOOSE i \in raising(parts) : \A j \in raising(parts) : i <= j
        check(part) == part.text # <<>>
        texts(parts) == LET kept == SelectSeq(parts, check)
                        IN  [i \in 1..Len(kept) |-> kept[i].text]
        fmt(parts) ==
            IF raising(parts) # {}
            THEN [exc |-> parts[first(parts)].exc, text |-> <<>>]
            ELSE [exc |-> "none",
                  text |-> lines_with_indent(Join(texts(parts), <<"\n">>), 4)]
    IN  { fmt(parts) : parts \in OneOfEach(made) }

\* MulParamsFormatter.doc, the property of Formatter with the _annotations of
\* the subclass: the outcomes [exc, text]
MulParamsFormatter_doc_outcomes(self) ==
    { IF a.exc # "none"
      THEN a
      ELSE [exc |-> "none",
            text |-> lines_with_indent(
                         Formatter_func_statement(self) \o <<"\n">> \o a.text, 4)]
        : a \in MulParamsFormatter_annotations(self) }

\* the most items of a descriptor
MaxItems == 3

\* the items: one with a payload in every section and no group, one with the
\* group of its params section, one with the group of its header section,
\* one with the shared group, one with the group of its success section and
\* the shared one, an empty one
MulItems ==
    { PyDict(<<<<PyStr(<<"h", "e", "a", "d", "e", "r">>), PyDict(<<<<PyStr(<<"a">>), PyInt(1)>>>>)>>, <<PyStr(<<"p", "a", "r", "a", "m", "s">>), PyDict(<<<<PyStr(<<"b">>), PyStr(<<"x">>)>>>>)>>, <<PyStr(<<"s", "u", "c", "c", "e", "s", "s", "_", "e", "x", "a", "m", "p", "l", "e">>), PyDict(<<<<PyStr(<<"o", "k">>), PyBool(TRUE)>>>>)>>, <<PyStr(<<"s", "u", "c", "c", "e", "s", "s", "_", "p", "a", "r", "a", "m", "s">>), PyDict(<<<<PyStr(<<"o", "k">>), PyBool(TRUE)>>>>)>>, <<PyStr(<<"e", "r", "r", "o", "r", "_", "e", "x", "a", "m", "p", "l", "e">>), PyDict(<<<<PyStr(<<"e">>), PyInt(1)>>>>)>>, <<PyStr(<<"e", "r", "r", "o", "r", "_", "p", "a", "r", "a", "m", "s">>), PyDict(<<<<PyStr(<<"e">>), PyInt(1)>>>>)>>>>),
      PyDict(<<<<PyStr(<<"p", "a", "r", "a", "m", "s">>), PyDict(<<<<PyStr(<<"a">>), PyInt(1)>>>>)>>, <<PyStr(<<"p", "a", "r", "a", "m", "s", "_", "g", "r", "o", "u", "p">>), PyStr(<<"p", "g">>)>>>>),
      PyDict(<<<<PyStr(<<"h", "e", "a", "d", "e", "r">>), PyDict(<<<<PyStr(<<"a">>), PyInt(1)>>>>)>>, <<PyStr(<<"h", "e", "a", "d", "e", "r", "_", "g", "r", "o", "u", "p">>), PyStr(<<"h", "g">>)>>, <<PyStr(<<"p", "a", "r", "a", "m", "s">>), PyDict(<<<<PyStr(<<"a">>), PyInt(1)>>>>)>>>>),
      PyDict(<<<<PyStr(<<"p", "a", "r", "a", "m", "s">>), PyDict(<<<<PyStr(<<"a">>), PyInt(1)>>>>)>>, <<PyStr(<<"g", "r", "o", "u", "p">>), PyStr(<<"s", "h">>)>>>>),
      PyDict(<<<<PyStr(<<"s", "u", "c", "c", "e", "s", "s", "_", "p", "a", "r", "a", "m", "s">>), PyDict(<<<<PyStr(<<"a">>), PyList(<<PyInt(1)>>)>>>>)>>, <<PyStr(<<"s", "u", "c", "c", "e", "s", "s", "_", "g", "r", "o", "u", "p">>), PyStr(<<"s", "g">>)>>, <<PyStr(<<"g", "r", "o", "u", "p">>), PyStr(<<"s", "h">>)>>, <<PyStr(<<"e", "r", "r", "o", "r", "_", "e", "x", "a", "m", "p", "l", "e">>), PyDict(<<<<PyStr(<<"a">>), PyInt(1)>>>>)>>>>),
      PyDict(<<>>) }

\* mul_items: None, or a list of up to MaxItems items
MulItemLists ==
    {PyNone} \cup {PyList(s) : s \in UNION {[1..n -> MulItems] : n \in 0..MaxItems}}

\* mul_groups: None, or the list of the first n of the groups g1, g2, ..
MulGroupLists ==
    {PyNone}
    \cup {PyList([i \in 1..n |-> PyStr(<<"g">> \o NatText(i))]) : n \in 0..MaxItems}

\* the arguments of the constructor: all items and groups of the list of
\* users, and the paths, methods and mappings with few items
MulArgs ==
    { [path |-> PlainArgs.path, method |-> RequestMethod_Get,
       title |-> PlainArgs.title, group |-> <<>>, desc |-> <<>>,
       perm |-> Permission_Nothing, mapping |-> PyNone,
       mul_groups |-> groups, mul_items |-> items]
        : groups \in MulGroupLists, items \in MulItemLists }
    \cup
    { [path |-> path, method |-> method,
       title |-> PlainArgs.title, group |-> group, desc |-> group,
       perm |-> Permission_Admin, mapping |-> mapping,
       mul_groups |-> groups, mul_items |-> items]
        : path \in {<<"/", "/", "u", "s", "e", "r", "s", "/", "/", "l", "i", "s", "t", "?", "x", "=", "1">>, <<"u", "s", "e", "r", "s">>},
          method \in Methods, group \in Groups, mapping \in Mappings,
          groups \in {PyNone, PyList(<<PyStr(<<"g", "1">>)>>)},
          items \in {PyNone, PyList(<<>>)} \cup {PyList(<<m>>) : m \in MulItems} }

\* MulParamsFormatter(...)
MulParamsFormatter_init(args) ==
    LET made == MulParamsFormatter_construct(args)
    IN  /\ mu_args' = args
        /\ mu_self' = made.self
        /\ mu_exc' = made.exc
        /\ mu_state' = IF made.exc = "none" THEN "constructed" ELSE "failed"
        /\ mu_doc' = Absent
        /\ UNCHANGED <<fm_vars, sm_vars, ty_vars, fp_vars, fe_vars, fo_vars, du_vars, fs_vars>>

\* a read of the property doc of a MulParamsFormatter
MulParamsFormatter_doc ==
    /\ mu_state \in {"constructed", "doc_returned", "doc_raised"}
    /\ \E r \in MulParamsFormatter_doc_outcomes(mu_self) :
          /\ mu_exc' = r.exc
          /\ mu_doc' = IF r.exc = "none" THEN PyStr(r.text) ELSE Absent
          /\ mu_state' = IF r.exc = "none" THEN "doc_returned" ELSE "doc_raised"
    /\ UNCHANGED <<mu_args, mu_self>>
    /\ UNCHANGED <<fm_vars, sm_vars, ty_vars, fp_vars, fe_vars, fo_vars, du_vars, fs_vars>>

----------------------------------------------------------------------------
(* units.DocUnit.  A request is answered by the server with a body that is *)
(* JSON, with a body that is not, or not at all; the callable success_lazy *)
(* is the default one, which returns its argument.                          *)

\* bool(x) where x may be a member of the str enums, as true as its value is
py_bool(x) ==
    CASE x.k \in {"Permission", "UserPermission"} -> x.v[2] # <<>>
      [] x.k = "RequestMethod" -> x.v # <<>>
      [] OTHER -> Truthy(x)

\* x or y
py_or(x, y) == IF py_bool(x) THEN x ELSE y

\* x or y on two str
str_or(x, y) == IF x # <<>> THEN x ELSE y

\* str.upper() on one character
UpperChar(ch) == IF ch \in LowerCase THEN AsciiLow[Ord(ch) - 63] ELSE ch

\* _camel_cased_word
camel_cased_word(word) == <<UpperChar(word[1])>> \o Tail(word)

\* d[key] = value on a dict
dict_setitem(d, key, value) ==
    LET hits == {i \in 1..Len(d.v) : d.v[i][1] = key}
    IN  IF hits = {}
        THEN PyDict(Append(d.v, <<key, value>>))
        ELSE PyDict([i \in 1..Len(d.v) |->
                        IF i \in hits THEN <<key, value>> ELSE d.v[i]])

RECURSIVE dict_update_from(_, _, _)
dict_update_from(d, other, i) ==
    IF i > Len(other.v)
    THEN d
    ELSE dict_update_from(dict_setitem(d, other.v[i][1], other.v[i][2]), other, i + 1)

\* d.update(other)
dict_update(d, other) == dict_update_from(d, other, 1)

\* kwargs.get(key, {}) where the keyword is held as Absent when not given
kwargs_get(value) == IF value = Absent THEN PyDict(<<>>) ELSE value

\* a constructor that checks the domain before the name
DocUnit_construct_domain_first(args) ==
    IF args.domain.k # "str" \/ args.domain.v = <<>>
    THEN [exc |-> "InvalidValueError", msg |-> <<"d", "o", "m", "a", "i", "n">>, self |-> Absent]
    ELSE IF args.name.k # "str" \/ args.name.v = <<>>
         THEN [exc |-> "InvalidValueError", msg |-> <<"n", "a", "m", "e">>, self |-> Absent]
         ELSE [exc |-> "none", msg |-> <<>>,
               self |-> [name |-> args.name.v, domain |-> args.domain.v,
                         group |-> args.group, perm |-> args.perm,
                         mapping |-> args.mapping,
                         error_example |-> py_or(args.error_example, PyDict(<<>>)),
                         error_params |-> py_or(args.error_params, PyDict(<<>>)),
                         header_group |-> args.header_group,
                         params_group |-> args.params_group,
                         success_group |-> args.success_group,
                         error_group |-> args.error_group,
                         doc_methods |-> {}]]

\* DocUnit.__init__: the outcome [exc, msg, self]
DocUnit_construct(args) ==
    IF args.name.k # "str" \/ args.name.v = <<>>
    THEN [exc |-> "InvalidValueError", msg |-> <<"n", "a", "m", "e">>, self |-> Absent]
    ELSE IF args.domain.k # "str" \/ args.domain.v = <<>>
         THEN [exc |-> "InvalidValueError", msg |-> <<"d", "o", "m", "a", "i", "n">>, self |-> Absent]
         ELSE [exc |-> "none", msg |-> <<>>,
               self |-> [name |-> args.name.v, domain |-> args.domain.v,
                         group |-> args.group, perm |-> args.perm,
                         mapping |-> args.mapping,
                         error_example |-> py_or(args.error_example, PyDict(<<>>)),
                         error_params |-> py_or(args.error_params, PyDict(<<>>)),
                         header_group |-> args.header_group,
                         params_group |-> args.params_group,
                         success_group |-> args.success_group,
                         error_group |-> args.error_group,
                         doc_methods |-> {}]]

\* the arguments get and post hand to Formatter: what the call gives, else
\* what the unit was constructed with; the payload the server answered is
\* both the success example and the success params
DocUnit_formatter_args(self, method, call, params, payload) ==
    [path |-> call.path, method |-> method, title |-> call.title,
     group |-> str_or(call.group, self.group), desc |-> call.desc,
     perm |-> py_or(call.perm, self.perm),
     mapping |-> py_or(call.mapping, self.mapping),
     header |-> kwargs_get(call.headers),
     header_group |-> str_or(call.header_group, self.header_group),
     params |-> params,
     params_group |-> str_or(call.params_group, self.params_group),
     success_example |-> payload, success_params |-> payload,
     success_group |-> str_or(call.success_group, self.success_group),
     error_example |-> py_or(call.error_example, self.error_example),
     error_params |-> py_or(call.error_params, self.error_params),
     error_group |-> str_or(call.error_group, self.error_group)]

\* Formatter(...).doc on a constructor outcome: the outcomes [exc, text]
DocUnit_documented(made) ==
    IF made.exc # "none"
    THEN {[exc |-> made.exc, text |-> <<>>]}
    ELSE Formatter_doc_outcomes(made.self)

\* the body of get and post up to the doc: the outcomes [exc, text].  The
\* request raises when the server does not answer, r.json() when the body is
\* not JSON.
DocUnit_doc_outcomes(self, method, call, params, resp) ==
    IF resp.k = "down"
    THEN {[exc |-> "ConnectionError", text |-> <<>>]}
    ELSE IF resp.k = "text"
         THEN {[exc |-> "ValueError", text |-> <<>>]}
         ELSE DocUnit_documented(
                  Formatter_construct(
                      DocUnit_formatter_args(self, method, call, params, resp.v)))

\* an add that comes before the statements that can raise
DocUnit_doc_methods_add_first(self, r) == self.doc_methods \cup {r.text}

\* self._doc_methods.add(doc), the statement before the return
DocUnit_doc_methods_add(self, r) ==
    IF r.exc = "none" THEN self.doc_methods \cup {r.text} ELSE self.doc_methods

\* the most docs a unit is followed to, counted by method and path given
MaxDocumented == 3

\* the state after get or post
DocUnit_called(method, call, params, resp) ==
    /\ du_state \in {"constructed", "returned", "raised", "output"}
    /\ Cardinality(du_produced) < MaxDocumented
    /\ \E r \in DocUnit_doc_outcomes(du_self, method, call, params, resp) :
          /\ du_self' = [du_self EXCEPT !.doc_methods = DocUnit_doc_methods_add(du_self, r)]
          /\ du_exc' = r.exc
          /\ du_state' = IF r.exc = "none" THEN "returned" ELSE "raised"
          /\ du_ret' = IF r.exc = "none" THEN PyStr(r.text) ELSE Absent
          /\ du_produced' = IF r.exc = "none"
                            THEN du_produced \cup {[method |-> method, path |-> call.path,
                                                    doc |-> r.text]}
                            ELSE du_produced
    /\ du_msg' = <<>>
    /\ UNCHANGED du_args
    /\ UNCHANGED <<fm_vars, sm_vars, ty_vars, fp_vars, fe_vars, fo_vars, mu_vars, fs_vars>>

\* DocUnit.get
DocUnit_get(call, resp) ==
    DocUnit_called(RequestMethod_Get, call,
                   dict_update(PyDict(<<>>), kwargs_get(call.params)), resp)

\* DocUnit.post
DocUnit_post(call, resp) ==
    DocUnit_called(RequestMethod_Post, call,
                   dict_update(dict_update(PyDict(<<>>), kwargs_get(call.data)),
                               kwargs_get(call.json)),
                   resp)

\* DocUnit.get_many: the loop over mul_kw raises TypeError on None; a request
\* of the loop raises when the server does not answer; the statements after
\* the loop read the name kwargs, which the function does not have
DocUnit_get_many(mul_kw, resp) ==
    /\ du_state \in {"constructed", "returned", "raised", "output"}
    /\ du_exc' = IF mul_kw.k \notin {"list", "tuple"}
                 THEN "TypeError"
                 ELSE IF mul_kw.v # <<>> /\ resp.k = "down"
                      THEN "ConnectionError"
                      ELSE "NameError"
    /\ du_state' = "raised"
    /\ du_ret' = Absent
    /\ du_msg' = <<>>
    /\ UNCHANGED <<du_args, du_self, du_produced>>
    /\ UNCHANGED <<fm_vars, sm_vars, ty_vars, fp_vars, fe_vars, fo_vars, mu_vars, fs_vars>>

\* str a < str b: at the first place they differ the character of a has the
\* smaller code, or a is a proper prefix of b
TextBefore(a, b) ==
    LET n == IF Len(a) < Len(b) THEN Len(a) ELSE Len(b)
        diff == {i \in 1..n : a[i] # b[i]}
    IN  IF diff = {}
        THEN Len(a) < Len(b)
        ELSE LET i == CHOOSE j \in diff : \A m \in diff : j <= m
             IN  Ord(a[i]) < Ord(b[i])

\* the list sorted from the greatest to the least
DocUnit_sorted_descending(methods) ==
    [i \in 1..Cardinality(methods) |->
        CHOOSE d \in methods : Cardinality({e \in methods : TextBefore(d, e)}) = i - 1]

\* list(methods) sorted by methods.sort(key=lambda x: x)
DocUnit_sorted(methods) ==
    [i \in 1..Cardinality(methods) |->
        CHOOSE d \in methods : Cardinality({e \in methods : TextBefore(e, d)}) = i - 1]

\* DocUnit.output
DocUnit_output_code(self) ==
    <<"c", "l", "a", "s", "s", " ", "A", "p", "i", "D", "o", "c">> \o camel_cased_word(self.name) \o <<"(", "o", "b", "j", "e", "c", "t", ")", ":">>
        \o Join(DocUnit_sorted(self.doc_methods),
                <<"\n", "\n">> \o Spaces(4) \o <<"@", "s", "t", "a", "t", "i", "c", "m", "e", "t", "h", "o", "d">> \o <<"\n">>)

\* a read of the property DocUnit.output
DocUnit_output ==
    /\ du_state \in {"constructed", "returned", "raised", "output"}
    /\ du_ret' = PyStr(DocUnit_output_code(du_self))
    /\ du_state' = "output"
    /\ du_exc' = "none"
    /\ du_msg' = <<>>
    /\ UNCHANGED <<du_args, du_self, du_produced>>
    /\ UNCHANGED <<fm_vars, sm_vars, ty_vars, fp_vars, fe_vars, fo_vars, mu_vars, fs_vars>>

\* DocUnit(...)
DocUnit_init(args) ==
    /\ du_state = "none"
    /\ du_args' = args
    /\ du_self' = DocUnit_construct(args).self
    /\ du_exc' = DocUnit_construct(args).exc
    /\ du_msg' = DocUnit_construct(args).msg
    /\ du_state' = IF DocUnit_construct(args).exc = "none" THEN "constructed" ELSE "failed"
    /\ du_ret' = Absent
    /\ du_produced' = {}
    /\ UNCHANGED <<fm_vars, sm_vars, ty_vars, fp_vars, fe_vars, fo_vars, mu_vars, fs_vars>>

\* the names and domains a unit is constructed with
UnitNames == {PyStr(<<"u", "s", "e", "r">>), PyStr(<<>>), PyNone, PyInt(1)}

UnitDomains == {PyStr(<<"h", "t", "t", "p", ":", "/", "/", "t", "e", "s", "t", ".", "c", "o", "m", "/">>), PyStr(<<>>), PyNone}

\* a unit with nothing but name and domain given
PlainUnit ==
    [name |-> PyStr(<<"u", "s", "e", "r">>), domain |-> PyStr(<<"h", "t", "t", "p", ":", "/", "/", "t", "e", "s", "t", ".", "c", "o", "m", "/">>),
     group |-> <<>>, perm |-> Permission_Nothing, mapping |-> PyNone,
     header_group |-> <<>>, params_group |-> <<>>, success_group |-> <<>>,
     error_group |-> <<>>, error_example |-> PyNone, error_params |-> PyNone]

UnitArgs ==
    { [PlainUnit EXCEPT !.name = name, !.domain = domain, !.group = group]
        : name \in UnitNames, domain \in UnitDomains, group \in Groups }

\* a call with nothing but path and title given
PlainCall ==
    [path |-> <<"/", "u", "s", "e", "r", "s", "/", "l", "i", "s", "t">>, title |-> <<"L", "i", "s", "t", " ", "u", "s", "e", "r", "s">>,
     group |-> <<>>, desc |-> <<>>, perm |-> Permission_Nothing, mapping |-> PyNone,
     header_group |-> <<>>, params_group |-> <<>>, success_group |-> <<>>,
     error_group |-> <<>>, error_example |-> PyNone, error_params |-> PyNone,
     headers |-> Absent, params |-> Absent, data |-> Absent, json |-> Absent]

\* what the server answers: JSON, a body that is not JSON, nothing
Answer(payload) == [k |-> "json", v |-> payload]

AnswerOk == Answer(PyDict(<<<<PyStr(<<"o", "k">>), PyBool(TRUE)>>>>))

Responses ==
    { AnswerOk, Answer(PyList(<<PyInt(1)>>)), Answer(ItemsPayload),
      [k |-> "text", v |-> <<>>], [k |-> "down", v |-> <<>>] }

\* the calls: the same path written in two ways; keywords that give params,
\* the later of two the same name taking the place of the earlier; a path
\* that is not legal; a permission that is no member
UnitCalls ==
    { [PlainCall EXCEPT !.path = path] : path \in {<<"/", "u", "s", "e", "r", "s", "/", "l", "i", "s", "t">>, <<"/", "/", "u", "s", "e", "r", "s", "/", "/", "l", "i", "s", "t", "?", "x", "=", "1">>, <<"u", "s", "e", "r", "s">>} }
    \cup
    { [PlainCall EXCEPT !.params = PyDict(<<<<PyStr(<<"a">>), PyInt(1)>>>>),
                        !.data = PyDict(<<<<PyStr(<<"a">>), PyInt(1)>>>>),
                        !.json = PyDict(<<<<PyStr(<<"a">>), PyStr(<<"x">>)>>, <<PyStr(<<"b">>), PyBool(TRUE)>>>>)],
      [PlainCall EXCEPT !.perm = PyStr(<<"a", "d", "m", "i", "n">>)] }

\* the calls with their answers: every call answered well, the plain one
\* answered in every way
AnsweredCalls ==
    {<<call, AnswerOk>> : call \in UnitCalls} \cup {<<PlainCall, resp>> : resp \in Responses}

DocUnit_new == \E args \in UnitArgs : DocUnit_init(args)

DocUnit_get_any == \E c \in AnsweredCalls : DocUnit_get(c[1], c[2])

DocUnit_post_any == \E c \in AnsweredCalls : DocUnit_post(c[1], c[2])

DocUnit_get_many_any ==
    \E mul_kw \in {PyNone, PyList(<<PyDict(<<>>)>>)}, resp \in {AnswerOk, [k |-> "down", v |-> <<>>]} :
        DocUnit_get_many(mul_kw, resp)

NextUnit ==
    \/ DocUnit_new
    \/ DocUnit_get_any
    \/ DocUnit_post_any
    \/ DocUnit_get_many_any
    \/ DocUnit_output

----------------------------------------------------------------------------
(* The stub declaration of the two descriptor classes of the repository:   *)
(* formats.Formatter, which DocUnit constructs, and format.Formatter, which *)
(* the package exports.  The constructor of the second keeps path and      *)
(* method as they are given.                                                *)

\* the methods of the two descriptors of one path
StatementMethods == {RequestMethod_Get, RequestMethod_Post}

\* a call that raised
Raised == [k |-> "raised", v |-> <<>>]

\* format.path_of_separate
path_of_separate(path, operator) == Split(StripSlashes(path), operator)

\* format.Formatter._func_statement
format_Formatter_func_statement(self) ==
    <<"d", "e", "f", " ">> \o Join(Append(path_of_separate(self.path, "/"), self.method.v), <<"_">>)
        \o <<"(", ")", " ", "-", ">", " ", "N", "o", "n", "e", ":">>

\* Formatter(...)._func_statement() on a constructor outcome of formats
Formatter_statement_of(made) ==
    IF made.exc # "none"
    THEN Raised
    ELSE PyStr(Formatter_func_statement(made.self))

\* formats.Formatter(path, method, title)._func_statement()
Formatter_statement(method) ==
    /\ fs_path # Absent
    /\ fs_stub[method] = Absent
    /\ fs_stub' = [fs_stub EXCEPT ![method] =
                      Formatter_statement_of(
                          Formatter_construct([PlainArgs EXCEPT !.path = fs_path.v,
                                                                !.method = method]))]
    /\ UNCHANGED <<fs_path, fs_legacy>>
    /\ UNCHANGED <<fm_vars, sm_vars, ty_vars, fp_vars, fe_vars, fo_vars, mu_vars, du_vars>>

\* format.Formatter(path, method, title)._func_statement()
format_Formatter_statement(method) ==
    /\ fs_path # Absent
    /\ fs_legacy[method] = Absent
    /\ fs_legacy' = [fs_legacy EXCEPT ![method] =
                        PyStr(format_Formatter_func_statement(
                                  [path |-> fs_path.v, method |-> method]))]
    /\ UNCHANGED <<fs_path, fs_stub>>
    /\ UNCHANGED <<fm_vars, sm_vars, ty_vars, fp_vars, fe_vars, fo_vars, mu_vars, du_vars>>

\* the caller chooses the path of the descriptors
Statement_new ==
    /\ fs_path = Absent
    /\ \E path \in Paths : fs_path' = PyStr(path)
    /\ UNCHANGED <<fs_stub, fs_legacy>>
    /\ UNCHANGED <<fm_vars, sm_vars, ty_vars, fp_vars, fe_vars, fo_vars, mu_vars, du_vars>>

Formatter_statement_any == \E method \in StatementMethods : Formatter_statement(method)

format_Formatter_statement_any ==
    \E method \in StatementMethods : format_Formatter_statement(method)

NextStatement ==
    \/ Statement_new
    \/ Formatter_statement_any
    \/ format_Formatter_statement_any

----------------------------------------------------------------------------
(* The reference the Flattener is held against: the traversal paths of a   *)
(* payload.  A path is a sequence of steps, a step a mapping key or the    *)
(* index 0 of a non-empty sequence.                                        *)

IsSeqKind(value) == value.k \in {"list", "tuple"}

RECURSIVE PathsOf(_), NodeAt(_, _), Dotted(_), AllKeys(_), AllNodes(_)

PathsOf(value) ==
    IF value.k = "dict"
    THEN UNION {{<<it[1]>>} \cup {<<it[1]>> \o q : q \in PathsOf(it[2])}
                   : it \in Range(value.v)}
    ELSE IF IsSeqKind(value) /\ value.v # <<>>
         THEN {<<PyInt(0)>>} \cup {<<PyInt(0)>> \o q : q \in PathsOf(value.v[1])}
         ELSE {}

\* the node a path leads to
NodeAt(value, path) ==
    IF path = <<>>
    THEN value
    ELSE IF value.k = "dict"
         THEN LET it == CHOOSE it \in Range(value.v) : it[1] = Head(path)
              IN  NodeAt(it[2], Tail(path))
         ELSE NodeAt(value.v[1], Tail(path))

\* the dotted key of a path
Dotted(path) ==
    IF Len(path) = 1
    THEN Format(path[1])
    ELSE Format(path[1]) \o <<".">> \o Dotted(Tail(path))

\* every mapping key of a value, at any depth
AllKeys(value) ==
    IF value.k = "dict"
    THEN UNION {{it[1]} \cup AllKeys(it[2]) : it \in Range(value.v)}
    ELSE IF value.k \in {"list", "tuple", "set"}
         THEN UNION {AllKeys(e) : e \in Range(value.v)}
         ELSE {}

\* every node of a value, itself included
AllNodes(value) ==
    {value} \cup
    (IF value.k = "dict"
     THEN UNION {AllNodes(it[2]) : it \in Range(value.v)}
     ELSE IF value.k \in {"list", "tuple", "set"}
          THEN UNION {AllNodes(e) : e \in Range(value.v)}
          ELSE {})

\* the keys are non-empty strings without the separator
PlainKeys(value) ==
    \A key \in AllKeys(value) :
        key.k = "str" /\ key.v # <<>> /\ "." \notin Range(key.v)

\* the zero value of a node's type, as the data model gives it
ZeroValue(value) ==
    CASE value.k = "bool" -> PyBool(FALSE)
      [] value.k = "int" -> PyInt(0)
      [] value.k = "float" -> PyFloat(0)
      [] value.k = "str" -> PyStr(<<>>)
      [] value.k = "list" -> PyList(<<>>)
      [] value.k = "tuple" -> PyTuple(<<>>)
      [] value.k = "dict" -> PyDict(<<>>)

\* built from booleans, numbers, strings, sequences and mappings only
NoOtherTypes(value) ==
    \A node \in AllNodes(value) :
        node.k \in {"bool", "int", "float", "str", "list", "tuple", "dict"}

----------------------------------------------------------------------------
RECURSIVE Collapsed(_)

\* the reference collapsed tree: a sequence keeps its first element only,
\* itself collapsed; an empty sequence, a key and a scalar stay as they are
Collapsed(value) ==
    CASE value.k = "dict" ->
           PyDict([i \in 1..Len(value.v) |->
                      <<value.v[i][1], Collapsed(value.v[i][2])>>])
      [] value.k \in {"list", "tuple"} ->
           IF value.v = <<>>
           THEN value
           ELSE [value EXCEPT !.v = <<Collapsed(value.v[1])>>]
      [] OTHER -> value

\* a == b on two dicts of Python: the same keys with equal values, in any order
DictEq(a, b) ==
    /\ a.k = "dict"
    /\ b.k = "dict"
    /\ Len(a.v) = Len(b.v)
    /\ \A i \in 1..Len(a.v) : \E j \in 1..Len(b.v) : a.v[i] = b.v[j]

InitParams ==
    /\ fm_arg = Absent
    /\ fm_nest = Absent
    /\ fm_flat = EmptyMap
    /\ fm_state = "none"
    /\ fm_exc = "none"
    /\ fm_seen = Absent
    /\ sm_arg = Absent
    /\ sm_inp = Absent
    /\ sm_params = Absent
    /\ sm_alias = FALSE
    /\ sm_state = "none"
    /\ sm_exc = "none"
    /\ sm_ret = Absent

InitFormat ==
    /\ fp_call = Absent
    /\ fp_state = "none"
    /\ fp_exc = "none"
    /\ fp_ret = Absent
    /\ fo_args = Absent
    /\ fo_inp = Absent
    /\ fo_self = Absent
    /\ fo_state = "none"
    /\ fo_exc = "none"
    /\ fo_doc = Absent
    /\ fe_call = Absent
    /\ fe_state = "none"
    /\ fe_exc = "none"
    /\ fe_ret = Absent
    /\ mu_args = Absent
    /\ mu_self = Absent
    /\ mu_state = "none"
    /\ mu_exc = "none"
    /\ mu_doc = Absent
    /\ du_args = Absent
    /\ du_self = Absent
    /\ du_state = "none"
    /\ du_exc = "none"
    /\ du_msg = <<>>
    /\ du_ret = Absent
    /\ du_produced = {}
    /\ fs_path = Absent
    /\ fs_stub = [m \in StatementMethods |-> Absent]
    /\ fs_legacy = [m \in StatementMethods |-> Absent]

InitAll ==
    /\ InitParams
    /\ InitFormat
    /\ ty_arg = Absent
    /\ ty_ret = Absent

\* _typing_by_check is a function of its argument: the value is given at the start
InitTyping ==
    /\ InitParams
    /\ InitFormat
    /\ ty_arg \in TypingInputs
    /\ ty_ret = Absent

\* the caller constructs a FlatMap on some payload
FlatMap_new ==
    /\ fm_state = "none"
    /\ \E params \in FlatInputs(MaxNodes) : FlatMap_init(params)

NextFlat ==
    \/ FlatMap_new
    \/ FlatMap_flat

SpecFlat == InitAll /\ [][NextFlat]_vars

\* the most nodes of a payload whose mapping the caller changes between reads
MaxEdited == 2

\* the caller constructs a FlatMap on a payload it goes on to change
FlatMap_new_edited ==
    /\ fm_state = "none"
    /\ \E params \in FlatInputs(MaxEdited) : FlatMap_init(params)

NextReads ==
    \/ FlatMap_new_edited
    \/ FlatMap_flat
    \/ Caller_del
    \/ Caller_setitem

SpecReads == InitAll /\ [][NextReads]_vars

\* the caller constructs a SingleMap on some payload
SingleMap_new ==
    /\ sm_state = "none"
    /\ \E params \in SingleInputs(MaxNodes, ExoticNodes) : SingleMap_init(params)

NextSingle ==
    \/ SingleMap_new
    \/ SingleMap_single

SpecSingle == InitAll /\ [][NextSingle]_vars

\* the caller constructs one of the two on a payload and reads its property
Params_new ==
    /\ fm_state = "none"
    /\ sm_state = "none"
    /\ \E params \in FlatInputs(MaxNodes) \cup SingleWritten :
          \/ FlatMap_init(params)
          \/ SingleMap_init(params)

NextParams ==
    \/ Params_new
    \/ FlatMap_flat
    \/ SingleMap_single

SpecParams == InitAll /\ [][NextParams]_vars

\* the caller hands what single returned to a FlatMap, as Formatter.__init__
\* hands a collapsed payload on to be flattened
FlatMap_of_single ==
    /\ sm_state = "returned"
    /\ fm_state = "none"
    /\ FlatMap_init(sm_ret)

NextCommute ==
    \/ SingleMap_new
    \/ SingleMap_single
    \/ FlatMap_of_single
    \/ FlatMap_flat

SpecCommute == InitAll /\ [][NextCommute]_vars

NextTyping == typing_by_check_call

SpecTyping == InitTyping /\ [][NextTyping]_vars

NextFormat == formatted_params_new

SpecFormat == InitAll /\ [][NextFormat]_vars

NextExample == formatted_example_new

SpecExample == InitAll /\ [][NextExample]_vars

\* the caller constructs a Formatter
Formatter_new ==
    /\ fo_state = "none"
    /\ \E args \in FormatterArgs : Formatter_init(args)

NextFormatter ==
    \/ Formatter_new
    \/ Formatter_doc

SpecFormatter == InitAll /\ [][NextFormatter]_vars

MulParamsFormatter_new ==
    /\ mu_state = "none"
    /\ \E args \in MulArgs : MulParamsFormatter_init(args)

NextMul ==
    \/ MulParamsFormatter_new
    \/ MulParamsFormatter_doc

SpecMul == InitAll /\ [][NextMul]_vars

SpecUnit == InitAll /\ [][NextUnit]_vars

SpecStatement == InitAll /\ [][NextStatement]_vars

----------------------------------------------------------------------------
(* Claims about the Flattener *)

\* C1: for a mapping whose keys are non-empty strings without '.', the keys
\* of flatten(t) are exactly the dotted traversal paths of t: every
\* container's own path and its descendants' paths, the first element of a
\* non-empty sequence under '.0', nothing for later elements
C1_FlatKeysAreThePaths ==
    (fm_state = "read" /\ PlainKeys(fm_nest))
        => DOMAIN fm_flat = {Dotted(q) : q \in PathsOf(fm_nest)}

\* a payload with plain keys was flattened that holds a sequence of two
\* different elements
C1_Witness ==
    /\ fm_state = "read"
    /\ PlainKeys(fm_nest)
    /\ \E q \in PathsOf(fm_nest) :
          LET node == NodeAt(fm_nest, q)
          IN  /\ node.k = "list"
              /\ Len(node.v) >= 2
              /\ node.v[1] # node.v[2]
              /\ Dotted(q) \o <<".", "0">> \in DOMAIN fm_flat

\* C2: every value of flatten(t) is the zero value of the type of a node at
\* that path (false, 0, "", empty sequence, empty mapping); a leaf's own
\* value is never copied
C2_FlatValuesAreZero ==
    (fm_state = "read" /\ NoOtherTypes(fm_nest))
        => \A name \in DOMAIN fm_flat :
              \E q \in PathsOf(fm_nest) :
                  /\ Dotted(q) = name
                  /\ fm_flat[name] = ZeroValue(NodeAt(fm_nest, q))

\* a payload was flattened that holds a leaf which is not its type's zero
C2_Witness ==
    /\ fm_state = "read"
    /\ NoOtherTypes(fm_nest)
    /\ \E q \in PathsOf(fm_nest) :
          /\ NodeAt(fm_nest, q).k \in {"bool", "int", "str"}
          /\ NodeAt(fm_nest, q) # ZeroValue(NodeAt(fm_nest, q))
          /\ Dotted(q) \in DOMAIN fm_flat

\* C6: with arbitrary string keys, two distinct traversal paths never give
\* the same dotted key, so the result holds one entry per path
C6_OneKeyPerPath ==
    fm_state = "read"
        => /\ \A q1, q2 \in PathsOf(fm_nest) :
                 q1 # q2 => Dotted(q1) # Dotted(q2)
           /\ Cardinality(DOMAIN fm_flat) = Cardinality(PathsOf(fm_nest))

----------------------------------------------------------------------------
(* Claims about the Collapser and the two constructors *)

\* C3: for every mapping t, reading single returns the reference collapsed
\* tree of t: every sequence cut to its first element at every depth, empty
\* sequences, keys and scalars as they were
C3_CollapseIsReference ==
    sm_state \in {"returned", "raised"}
        => /\ sm_state = "returned"
           /\ DictEq(sm_ret, Collapsed(sm_arg))

\* C4: when single returns, the caller's object and every container in it
\* hold what they held before the call
C4_InputUnchanged ==
    sm_state = "returned" => sm_inp = sm_arg

\* C5: constructing the Flattener or the Collapser on a value that is not a
\* mapping raises ParamsTypeError, and no object and no result come of it
C5_NonMappingRaises ==
    /\ (fm_state # "none" /\ fm_arg.k # "dict")
          => /\ fm_state = "raised"
             /\ fm_exc = "ParamsTypeError"
             /\ fm_nest = Absent
             /\ fm_flat = EmptyMap
    /\ (sm_state # "none" /\ sm_arg.k # "dict")
          => /\ sm_state = "failed"
             /\ sm_exc = "ParamsTypeError"
             /\ sm_params = Absent
             /\ sm_ret = Absent

\* the Collapser was constructed on the empty string and raised
C5_Witness ==
    /\ sm_state = "failed"
    /\ sm_arg = PyStr(<<>>)
    /\ sm_exc = "ParamsTypeError"

----------------------------------------------------------------------------
(* Claims about the payload formatter *)

NamesOf(params) == {it[1].v : it \in Range(params.v)}

ValueOf(params, name) == (CHOOSE it \in Range(params.v) : it[1].v = name)[2]

IsWordToken(name) == name # <<>> /\ \A i \in 1..Len(name) : name[i] \in WordChars

\* the names in ascending order of code points
AscendingNames(names) ==
    CHOOSE s \in [1..Cardinality(names) -> names] :
        \A i, j \in 1..Cardinality(names) : i < j => StrLess(s[i], s[j])

\* the line of a field of a call
EntryLine(call, name) ==
    ApiDoc_param(call.formatter, typing_by_check(ValueOf(call.params, name)),
                 name, Explain(call.mapping, name),
                 IF call.group # <<>>
                 THEN <<"(">> \o call.group \o <<")">>
                 ELSE <<>>)

\* C9: the type tag is a fixed function of the value's type: a bool gives
\* Boolean, any other int or float Number, a str String, a list, tuple or
\* set Array, a dict or anything else Object
C9_TypingTable ==
    ty_ret # Absent
        => ty_ret.v = CASE ty_arg.k = "bool" -> ParamTyping_Bool
                        [] ty_arg.k \in {"int", "float"} -> ParamTyping_Num
                        [] ty_arg.k = "str" -> ParamTyping_Str
                        [] ty_arg.k \in {"list", "tuple", "set"} -> ParamTyping_List
                        [] OTHER -> ParamTyping_Obj

\* True was classified, and as Boolean
C9_Witness ==
    /\ ty_arg = PyBool(TRUE)
    /\ ty_ret = ParamTyping(ParamTyping_Bool)

\* C8: when every field name is a word token, the call returns the fields'
\* lines in ascending order of name, whatever the insertion order, the
\* explanations and the group
C8_SortedByName ==
    (fp_state # "none" /\ \A name \in NamesOf(fp_call.params) : IsWordToken(name))
        => /\ fp_state = "returned"
           /\ LET names == AscendingNames(NamesOf(fp_call.params))
              IN  fp_ret.v = Join([i \in 1..Len(names) |-> EntryLine(fp_call, names[i])],
                                <<"\n">>)

\* C10: the call returns the empty text for an empty mapping, and otherwise
\* the distinct lines of the entries, each once, joined by newlines
C10_DistinctLines ==
    fp_state # "none"
        => /\ fp_state = "returned"
           /\ IF fp_call.params.v = <<>>
              THEN fp_ret.v = <<>>
              ELSE LET rows == Split(fp_ret.v, "\n")
                   IN  /\ \A i, j \in 1..Len(rows) : i # j => rows[i] # rows[j]
                       /\ Range(rows) = {EntryLine(fp_call, name)
                                            : name \in NamesOf(fp_call.params)}

----------------------------------------------------------------------------
(* Claims about the endpoint descriptor *)

\* a sequence of mappings is somewhere in the payload
HoldsMappings(payload) ==
    \E node \in AllNodes(payload) :
        /\ IsSeqKind(node)
        /\ node.v # <<>>
        /\ \A i \in 1..Len(node.v) : node.v[i].k = "dict"

\* no payload, or a mapping whose names are word tokens
WordNamed(payload) ==
    \/ payload = PyNone
    \/ /\ payload.k = "dict"
       /\ \A name \in NamesOf(payload) : IsWordToken(name)

\* the path, the method and the permission are what the constructor takes
LegalArgs(args) ==
    /\ Len(args.path) >= 2
    /\ args.path[1] = "/"
    /\ args.path[2] \notin {"/", "?"}
    /\ args.method \in {RequestMethod_Get, RequestMethod_Post}
    /\ args.perm \in {Permission_Nothing, Permission_Admin}

StartsWith(row, prefix) ==
    Len(row) >= Len(prefix) /\ SubSeq(row, 1, Len(prefix)) = prefix

\* the rows of the returned text that are lines of a section
SectionRows(doc, formatter) ==
    {row \in Range(Split(doc, "\n")) : StartsWith(row, Spaces(8) \o formatter \o <<" ">>)}

\* the line of a name and a value in a section, as a row of the text
SectionRow(formatter, name, value, mapping, group) ==
    Spaces(8) \o ApiDoc_param(formatter, typing_by_check(value), name,
                              IF Truthy(mapping) /\ name \in DOMAIN mapping.v
                              THEN mapping.v[name]
                              ELSE FillIn,
                              IF group # <<>> THEN <<"(">> \o group \o <<")">> ELSE <<>>)

\* the rows of a payload formatted as given
GivenRows(payload, formatter, mapping, group) ==
    IF payload = PyNone
    THEN {}
    ELSE {SectionRow(formatter, name, ValueOf(payload, name), mapping, group)
             : name \in NamesOf(payload)}

\* the rows of the flattened paths of a payload
PathRows(payload, formatter, mapping, group) ==
    {SectionRow(formatter, Dotted(q), ZeroValue(NodeAt(payload, q)), mapping, group)
        : q \in PathsOf(payload)}

\* the rows of the example block of a payload
ExampleRows(payload) ==
    Range(Split(lines_with_indent(json_dumps_cn(payload), 12), "\n"))

\* what the descriptor holds and returns in the case of C7, for the success
\* payloads example and params
SuccessFromFirstItem ==
    /\ fo_state \in {"constructed", "doc_returned"}
    /\ DictEq(fo_self.success_example, Collapsed(fo_args.success_example))
    /\ fo_self.header = OrEmptyDict(fo_args.header)
    /\ fo_self.params = OrEmptyDict(fo_args.params)
    /\ fo_self.error_example = OrEmptyDict(fo_args.error_example)
    /\ fo_self.error_params = OrEmptyDict(fo_args.error_params)
    /\ fo_state = "doc_returned" =>
          /\ SectionRows(fo_doc.v, ApiDoc_Success)
               = PathRows(fo_args.success_params, ApiDoc_Success, fo_args.mapping,
                          fo_args.success_group)
          /\ ExampleRows(Collapsed(fo_args.success_example))
               \subseteq Range(Split(fo_doc.v, "\n"))
          /\ SectionRows(fo_doc.v, ApiDoc_Header)
               = GivenRows(fo_args.header, ApiDoc_Header, fo_args.mapping,
                           fo_args.header_group)
          /\ SectionRows(fo_doc.v, ApiDoc_Param)
               = GivenRows(fo_args.params, ApiDoc_Param, fo_args.mapping,
                           fo_args.params_group)
          /\ SectionRows(fo_doc.v, ApiDoc_Error)
               = GivenRows(fo_args.error_params, ApiDoc_Error, fo_args.mapping,
                           fo_args.error_group)

\* C7: for a descriptor whose success payloads hold a sequence of mappings,
\* the constructor and doc return; the success example kept is the collapsed
\* payload, the success section has one line for each flattened path of the
\* first item (items, items.0, items.0.id, items.0.name), and the header,
\* params and error payloads are kept and formatted as given.  The other
\* arguments are legal and the other payloads have word tokens for names.
C7_SuccessFromFirstItem ==
    ( /\ fo_state # "none"
      /\ LegalArgs(fo_args)
      /\ HoldsMappings(fo_args.success_example)
      /\ HoldsMappings(fo_args.success_params)
      /\ PlainKeys(fo_args.success_params)
      /\ WordNamed(fo_args.header)
      /\ WordNamed(fo_args.params)
      /\ WordNamed(fo_args.error_params) )
        => SuccessFromFirstItem

----------------------------------------------------------------------------
(* Claims about the lines and the example block *)

\* the tokens of a line, one space between two of them: the keyword, the
\* group in parentheses when one is given, the type in braces, the name and
\* the explanation, which is the lookup's entry for the name or the
\* placeholder
LineOfTokens(call, name) ==
    LET explanation == IF name \in DOMAIN call.mapping
                       THEN call.mapping[name]
                       ELSE <<"r", "e", "a", "d", "y", " ", "t", "o", " ", "f", "i", "l", "l", " ", "i", "n">>
        type == <<"{">> \o typing_by_check(ValueOf(call.params, name)) \o <<"}">>
        tokens == IF call.group # <<>>
                  THEN <<call.formatter, <<"(">> \o call.group \o <<")">>, type,
                         name, explanation>>
                  ELSE <<call.formatter, type, name, explanation>>
    IN  Join(tokens, <<" ">>)

\* C11: every line a call returns is <keyword> (<group>) {<type>} <name>
\* <explanation> when a group is given and <keyword> {<type>} <name>
\* <explanation> when none is, with exactly one space between the tokens,
\* the explanation being the lookup's entry or the placeholder
C11_LineTokens ==
    (fp_state = "returned" /\ fp_call.params.v # <<>>)
        => Range(Split(fp_ret.v, "\n"))
             = {LineOfTokens(fp_call, name) : name \in NamesOf(fp_call.params)}

\* bool(obj) is false: None, False, a zero, an empty str or container
Falsy(obj) ==
    obj \in {PyNone, PyBool(FALSE), PyInt(0), PyFloat(0), PyStr(<<>>),
             PyList(<<>>), PyTuple(<<>>), PyDict(<<>>), PySet(<<>>)}

\* the lowercased name of a keyword
LabelName(formatter) ==
    CASE formatter = ApiDoc_Header -> <<"h", "e", "a", "d", "e", "r">>
      [] formatter = ApiDoc_Param -> <<"p", "a", "r", "a", "m">>
      [] formatter = ApiDoc_Success -> <<"s", "u", "c", "c", "e", "s", "s">>
      [] formatter = ApiDoc_Error -> <<"e", "r", "r", "o", "r">>

\* the rows of the example block of a call: the keyword with Example {json}
\* and the label, then the rows of the JSON text, four spaces before each
BlockRows(call) ==
    LET label == LabelName(call.formatter) \o <<"-", "e", "x", "a", "m", "p", "l", "e">>
                 \o (IF call.group # <<>> THEN <<"-">> \o call.group ELSE <<>>)
        json == Split(json_dumps_cn(call.obj), "\n")
    IN  <<call.formatter \o <<"E", "x", "a", "m", "p", "l", "e", " ", "{", "j", "s", "o", "n", "}", " ">> \o label>>
        \o [i \in 1..Len(json) |-> <<" ", " ", " ", " ">> \o json[i]]

\* C12: for an object JSON can write, _formatted_example returns the empty
\* text when the object is falsy, and otherwise <keyword>Example {json}
\* <label>, a newline and the JSON text of the object, indented by four
\* spaces a level, with four more spaces before every line; the label is the
\* lowercased keyword name, '-example', and '-<group>' exactly when a group
\* is given
C12_ExampleBlock ==
    (fe_state # "none" /\ JsonOk(fe_call.obj))
        => /\ fe_state = "returned"
           /\ IF Falsy(fe_call.obj)
              THEN fe_ret.v = <<>>
              ELSE Split(fe_ret.v, "\n") = BlockRows(fe_call)

\* the block of {"test": "test"} was returned for the keyword of the header
\* without a group
C12_Witness ==
    /\ fe_state = "returned"
    /\ fe_call.obj = PyDict(<<<<PyStr(<<"t", "e", "s", "t">>), PyStr(<<"t", "e", "s", "t">>)>>>>)
    /\ fe_call.formatter = ApiDoc_Header
    /\ fe_call.group = <<>>
    /\ fe_ret.v = <<"@", "a", "p", "i", "H", "e", "a", "d", "e", "r", "E", "x", "a", "m", "p", "l", "e", " ", "{", "j", "s", "o", "n", "}", " ", "h", "e", "a", "d", "e", "r", "-", "e", "x", "a", "m", "p", "l", "e">> \o <<"\n">>
                  \o <<" ", " ", " ", " ", "{">> \o <<"\n">>
                  \o <<" ", " ", " ", " ", " ", " ", " ", " ", "\"", "t", "e", "s", "t", "\"", ":", " ", "\"", "t", "e", "s", "t", "\"">> \o <<"\n">>
                  \o <<" ", " ", " ", " ", "}">>

\* ---------------------------------------------------------------------------
\* Claims about the constructor of Formatter
\* ---------------------------------------------------------------------------

\* the text with every run of '/' reduced to one
RECURSIVE NoRuns(_)
NoRuns(t) ==
    IF Len(t) < 2
    THEN t
    ELSE IF t[1] = "/" /\ t[2] = "/"
         THEN NoRuns(Tail(t))
         ELSE <<t[1]>> \o NoRuns(Tail(t))

\* the text before its first '?'
RECURSIVE BeforeMark(_)
BeforeMark(t) ==
    IF t = <<>> \/ t[1] = "?"
    THEN <<>>
    ELSE <<t[1]>> \o BeforeMark(Tail(t))

\* C13: the stored path is the given path with runs of '/' collapsed and
\* everything from the first '?' on dropped; a path whose collapsed form does
\* not begin with '/' makes construction fail with NotLegalPathError.
C13_PathNormalised ==
    fo_state # "none"
        => LET c == NoRuns(fo_args.path)
           IN  /\ (c = <<>> \/ c[1] # "/")
                     => (fo_state = "failed" /\ fo_exc = "NotLegalPathError")
               /\ fo_state # "failed" => fo_self.path = BeforeMark(c)

C13_Witness ==
    /\ fo_state = "constructed"
    /\ fo_args.path = <<"/", "/", "f", "o", "o", "/", "/", "b", "a", "r", "?", "x", "=", "1">>
    /\ fo_self.path = <<"/", "f", "o", "o", "/", "b", "a", "r">>

\* the path is one the constructor takes
PathAccepted(path) ==
    LET c == NoRuns(path)
    IN  Len(c) >= 2 /\ c[1] = "/" /\ c[2] # "?"

IsMethodMember(method) == method \in {RequestMethod_Get, RequestMethod_Post}

IsPermitMember(perm) == perm.k \in {"Permission", "UserPermission"}

\* C14: a method that is no RequestMethod member, or a permission that is no
\* member of BasePermission or of a subclass of it, makes construction fail,
\* with EnumMemberError when the path is legal; the members of a user-defined
\* subclass of BasePermission are accepted.
C14_EnumMembers ==
    fo_state # "none"
        => /\ (~IsMethodMember(fo_args.method) \/ ~IsPermitMember(fo_args.perm))
                 => /\ fo_state = "failed"
                    /\ fo_exc \in {"EnumMemberError", "NotLegalPathError"}
                    /\ PathAccepted(fo_args.path) => fo_exc = "EnumMemberError"
           /\ (IsMethodMember(fo_args.method) /\ IsPermitMember(fo_args.perm))
                 => fo_exc # "EnumMemberError"

C14_Witness ==
    /\ fo_state = "failed"
    /\ fo_exc = "EnumMemberError"
    /\ fo_args.method = PyStr(<<"g", "e", "t">>)
    /\ IsPermitMember(fo_args.perm)

C14_WitnessSubclass ==
    /\ fo_state = "constructed"
    /\ fo_args.perm.k = "UserPermission"
    /\ fo_self.perm = fo_args.perm

\* ---------------------------------------------------------------------------
\* Claims about the text of doc
\* ---------------------------------------------------------------------------

\* a letter or an underscore followed only by letters, digits and underscores
IsBareIdentifier(x) ==
    /\ x # <<>>
    /\ x[1] \in Letters \cup {"_"}
    /\ \A i \in 1..Len(x) : x[i] \in Letters \cup Digits \cup {"_"}

\* the segments of the stored path between its slashes, without the empty ones
RECURSIVE SegmentsOf(_, _)
SegmentsOf(path, seg) ==
    IF path = <<>>
    THEN IF seg = <<>> THEN <<>> ELSE <<seg>>
    ELSE IF path[1] = "/"
         THEN (IF seg = <<>> THEN <<>> ELSE <<seg>>) \o SegmentsOf(Tail(path), <<>>)
         ELSE SegmentsOf(Tail(path), Append(seg, path[1]))

\* the rows of the text of doc
DocRows == Split(fo_doc.v, "\n")

\* the name in the declaration row: the text between 'def ' and '('
DeclaredName ==
    LET row == DocRows[1]
        open == CHOOSE i \in 1..Len(row) :
                    row[i] = "(" /\ \A j \in 1..(i - 1) : row[j] # "("
    IN  SubSeq(row, 9, open - 1)

\* C15: the name of the declaration in doc is the '_'-join, in path order, of
\* exactly the segments of the stored path that are bare identifiers; every
\* other segment ('123', '{id}', 'user-list', 'a.b') is dropped.
C15_StubName ==
    fo_state = "doc_returned"
        => /\ DocRows[1] = Spaces(4) \o <<"d", "e", "f", " ">> \o DeclaredName \o <<"(", ")", " ", "-", ">", " ", "N", "o", "n", "e", ":">>
           /\ DeclaredName = Join(SelectSeq(SegmentsOf(fo_self.path, <<>>), IsBareIdentifier), <<"_">>)

\* the part of C15 that holds: the segments that begin with a letter or an
\* underscore are the ones kept
C15_StubNameByFirstChar ==
    fo_state = "doc_returned"
        => LET kept(x) == x[1] \in Letters \cup {"_"}
           IN  DocRows[1] = Spaces(4) \o <<"d", "e", "f", " ">>
                            \o Join(SelectSeq(SegmentsOf(fo_self.path, <<>>), kept), <<"_">>)
                            \o <<"(", ")", " ", "-", ">", " ", "N", "o", "n", "e", ":">>

\* the first words of the rows of the parts, in the order of the claim;
\* the delimiter is the first and, at the end, the fourteenth part
PartWords ==
    << <<"\"", "\"", "\"">>, <<"@", "a", "p", "i">>, <<"@", "a", "p", "i", "D", "e", "s", "c", "r", "i", "p", "t", "i", "o", "n">>, <<"@", "a", "p", "i", "G", "r", "o", "u", "p">>, <<"@", "a", "p", "i", "P", "e", "r", "m", "i", "s", "s", "i", "o", "n">>,
       <<"@", "a", "p", "i", "H", "e", "a", "d", "e", "r">>, <<"@", "a", "p", "i", "H", "e", "a", "d", "e", "r", "E", "x", "a", "m", "p", "l", "e">>, <<"@", "a", "p", "i", "P", "a", "r", "a", "m">>, <<"@", "a", "p", "i", "P", "a", "r", "a", "m", "E", "x", "a", "m", "p", "l", "e">>,
       <<"@", "a", "p", "i", "S", "u", "c", "c", "e", "s", "s">>, <<"@", "a", "p", "i", "S", "u", "c", "c", "e", "s", "s", "E", "x", "a", "m", "p", "l", "e">>, <<"@", "a", "p", "i", "E", "r", "r", "o", "r">>, <<"@", "a", "p", "i", "E", "r", "r", "o", "r", "E", "x", "a", "m", "p", "l", "e">> >>

\* the first word of a row of the block, after the eight spaces every row of
\* the block begins with; empty for a row of an example, which is indented
\* further
RowWord(row) ==
    LET body == SubSeq(row, 9, Len(row))
        gaps == {i \in 1..Len(body) : body[i] = " "}
    IN  IF gaps = {}
        THEN body
        ELSE SubSeq(body, 1, (CHOOSE i \in gaps : \A j \in gaps : i <= j) - 1)

PartOf(word) ==
    IF \E p \in 1..Len(PartWords) : PartWords[p] = word
    THEN CHOOSE p \in 1..Len(PartWords) : PartWords[p] = word
    ELSE 0

\* the parts a descriptor with these attributes is to show
ExpectedParts(self) ==
    {1, 2, 5, 14}
    \cup (IF self.desc # <<>> THEN {3} ELSE {})
    \cup (IF self.group # <<>> THEN {4} ELSE {})
    \cup (IF Truthy(self.header) THEN {6, 7} ELSE {})
    \cup (IF Truthy(self.params) THEN {8, 9} ELSE {})
    \cup (IF Truthy(self.success_params) THEN {10} ELSE {})
    \cup (IF Truthy(self.success_example) THEN {11} ELSE {})
    \cup (IF Truthy(self.error_params) THEN {12} ELSE {})
    \cup (IF Truthy(self.error_example) THEN {13} ELSE {})

\* the part of every row of the block of doc, 0 for the rows inside an example
BlockParts ==
    LET rows == Tail(DocRows)
    IN  [i \in 1..Len(rows) |->
            IF i = Len(rows) /\ i > 1 /\ PartOf(RowWord(rows[i])) = 1
            THEN 14
            ELSE PartOf(RowWord(rows[i]))]

\* C16: the block of doc opens and closes with the delimiter; between them
\* come the declaration, the description, the group, the permission, then for
\* header, params, success and error the lines and the example, in this
\* order; the description and the group are there exactly when their text is
\* not empty, lines exactly when the parameter map is not empty, an example
\* exactly when it is not empty.
C16_PartsInOrder ==
    fo_state = "doc_returned"
        => LET part == BlockParts
               n == Len(part)
               keyed == {i \in 1..n : part[i] # 0}
           IN  /\ n >= 2 /\ part[1] = 1 /\ part[n] = 14
               /\ \A i, j \in keyed :
                     i < j => /\ part[i] <= part[j]
                              /\ part[i] = part[j] => part[i] \in {6, 8, 10, 12}
               /\ \A i \in 1..n :
                     part[i] = 0
                         => \E j \in keyed :
                               /\ j < i
                               /\ part[j] \in {7, 9, 11, 13}
                               /\ \A m \in (j + 1)..i : part[m] = 0
               /\ {part[i] : i \in keyed} = ExpectedParts(fo_self)

\* a doc with every part
C16_Witness ==
    /\ fo_state = "doc_returned"
    /\ {1, 2, 5, 6, 7, 8, 9, 10, 11, 12, 13, 14} \subseteq ExpectedParts(fo_self)

\* a doc with a description and a group and nothing else
C16_WitnessTexts ==
    /\ fo_state = "doc_returned"
    /\ ExpectedParts(fo_self) = {1, 2, 3, 4, 5, 14}

\* the number of spaces a row begins with
LeadingSpaces(row) ==
    LET others == {i \in 1..Len(row) : row[i] # " "}
    IN  IF others = {}
        THEN Len(row)
        ELSE (CHOOSE i \in others : \A j \in others : i <= j) - 1

\* a row of the block that is a delimiter or an annotation line
IsBlockLine(row) ==
    LET body == SubSeq(row, LeadingSpaces(row) + 1, Len(row))
    IN  body = <<"\"", "\"", "\"">> \/ (body # <<>> /\ body[1] = "@")

\* C17 as amended: in doc the declaration row begins with four spaces, the
\* delimiters and the annotation lines of the block begin with eight, one
\* level further than the declaration, and the rows of the examples with
\* twelve or more.
C17_BlockUnderDeclaration ==
    fo_state = "doc_returned"
        => /\ LeadingSpaces(DocRows[1]) = 4
           /\ SubSeq(DocRows[1], 5, 8) = <<"d", "e", "f", " ">>
           /\ \A i \in 2..Len(DocRows) :
                 IF IsBlockLine(DocRows[i])
                 THEN LeadingSpaces(DocRows[i]) = 8
                 ELSE LeadingSpaces(DocRows[i]) >= 12

\* a doc with the lines and the example of a section
C17_Witness ==
    /\ fo_state = "doc_returned"
    /\ {8, 9} \subseteq ExpectedParts(fo_self)
    /\ \E i \in 2..Len(DocRows) : IsBlockLine(DocRows[i]) /\ LeadingSpaces(DocRows[i]) = 8

\* C17 as stated: the delimiters and the annotation lines of the block begin
\* at the column of the declaration row, four spaces in.
C17_SameColumn ==
    fo_state = "doc_returned"
        => /\ LeadingSpaces(DocRows[1]) = 4
           /\ \A i \in 2..Len(DocRows) :
                 IsBlockLine(DocRows[i])
                     => LeadingSpaces(DocRows[i]) = LeadingSpaces(DocRows[1])

\* ---------------------------------------------------------------------------
\* Claims about the multi-section descriptor
\* ---------------------------------------------------------------------------

\* the number of items and of explicit groups given, none when left out
ItemCount(args) == IF args.mul_items = PyNone THEN 0 ELSE Len(args.mul_items.v)

GroupCount(args) == IF args.mul_groups = PyNone THEN 0 ELSE Len(args.mul_groups.v)

\* the path, the method and the permission are ones Formatter takes
MulLegalBase(args) ==
    /\ PathAccepted(args.path)
    /\ IsMethodMember(args.method)
    /\ IsPermitMember(args.perm)

SectionNames == {<<"h", "e", "a", "d", "e", "r">>, <<"p", "a", "r", "a", "m", "s">>, <<"s", "u", "c", "c", "e", "s", "s">>, <<"e", "r", "r", "o", "r">>}

GroupKeys == {S \o <<"_", "g", "r", "o", "u", "p">> : S \in SectionNames} \cup {<<"g", "r", "o", "u", "p">>}

\* the text an item holds under a key, empty when it has none
FieldText(item, key) ==
    IF \E i \in 1..Len(item.v) : item.v[i][1].v = key
    THEN item.v[CHOOSE i \in 1..Len(item.v) : item.v[i][1].v = key][2].v
    ELSE <<>>

\* the labels the descriptor holds for a section
GroupsOf(self, S) ==
    CASE S = <<"h", "e", "a", "d", "e", "r">> -> self.mul_header_groups
      [] S = <<"p", "a", "r", "a", "m", "s">> -> self.mul_params_groups
      [] S = <<"s", "u", "c", "c", "e", "s", "s">> -> self.mul_success_groups
      [] S = <<"e", "r", "r", "o", "r">> -> self.mul_error_groups

\* the statement of C18 for a call: NotEnoughGroupsError exactly
\* with a group, an item and more items than groups; without explicit groups
\* construction succeeds and an item without a group of its own has the label
\* '<S>-<i+1>' in section S; with as many groups as items or more
\* construction succeeds.
GroupsValidation(args) ==
    LET g == GroupCount(args)
        n == ItemCount(args)
    IN  /\ (mu_state = "failed" /\ mu_exc = "NotEnoughGroupsError")
              <=> (g >= 1 /\ n >= 1 /\ n > g)
        /\ g = 0
              => /\ mu_state # "failed"
                 /\ \A S \in SectionNames : \A i \in 1..n :
                       (\A key \in GroupKeys : FieldText(args.mul_items.v[i], key) = <<>>)
                           => GroupsOf(mu_self, S)[i] = S \o <<"-">> \o NatText(i)
        /\ g >= n => mu_state # "failed"

\* C18: see GroupsValidation, for every call with a legal path, method and
\* permission; items or groups left out count as none.
C18_GroupsValidation ==
    (mu_state # "none" /\ MulLegalBase(mu_args)) => GroupsValidation(mu_args)

\* the part of C18 that holds: the calls that give a list of items
C18_WithItemList ==
    (mu_state # "none" /\ MulLegalBase(mu_args) /\ mu_args.mul_items # PyNone)
        => GroupsValidation(mu_args)

\* one group and three items
C18_WitnessNotEnough ==
    /\ mu_state = "failed"
    /\ mu_exc = "NotEnoughGroupsError"
    /\ GroupCount(mu_args) = 1
    /\ ItemCount(mu_args) = 3

\* the label a section is to use for an item: the group of the section the
\* item gives, else the shared group it gives, else the explicit group at its
\* position, else '<S>-<i+1>'
LabelFor(args, S, i) ==
    LET item == args.mul_items.v[i]
    IN  IF FieldText(item, S \o <<"_", "g", "r", "o", "u", "p">>) # <<>>
        THEN FieldText(item, S \o <<"_", "g", "r", "o", "u", "p">>)
        ELSE IF FieldText(item, <<"g", "r", "o", "u", "p">>) # <<>>
        THEN FieldText(item, <<"g", "r", "o", "u", "p">>)
        ELSE IF GroupCount(args) > 0
        THEN args.mul_groups.v[i].v
        ELSE S \o <<"-">> \o NatText(i)

\* C19: in every section S the label of item i is LabelFor(S, i).
C19_LabelResolution ==
    mu_state \in {"constructed", "doc_returned", "doc_raised"}
        => \A S \in SectionNames : \A i \in 1..ItemCount(mu_args) :
              GroupsOf(mu_self, S)[i] = LabelFor(mu_args, S, i)

\* the part of C19 that holds: the header section, and the other sections
\* for the items that give no group of a section
C19_HeaderSection ==
    mu_state \in {"constructed", "doc_returned", "doc_raised"}
        => \A S \in SectionNames : \A i \in 1..ItemCount(mu_args) :
              (\/ S = <<"h", "e", "a", "d", "e", "r">>
               \/ \A T \in SectionNames :
                     FieldText(mu_args.mul_items.v[i], T \o <<"_", "g", "r", "o", "u", "p">>) = <<>>)
                  => GroupsOf(mu_self, S)[i] = LabelFor(mu_args, S, i)

\* the rows of doc of the multi-section descriptor
MulDocRows == Split(mu_doc.v, "\n")

\* C20, the multi-section descriptor: built with no items and no groups it is
\* constructed, and its doc is returned with a block of the delimiters, the
\* declaration line and the permission line only.
C20_NothingOptional ==
    ( /\ mu_state # "none"
      /\ MulLegalBase(mu_args)
      /\ mu_args.mul_items = PyNone
      /\ mu_args.mul_groups = PyNone
      /\ mu_args.desc = <<>> /\ mu_args.group = <<>> )
        => /\ mu_state \in {"constructed", "doc_returned"}
           /\ mu_state = "doc_returned"
                 => [i \in 1..Len(MulDocRows) - 1 |-> RowWord(MulDocRows[i + 1])]
                      = <<<<"\"", "\"", "\"">>, <<"@", "a", "p", "i">>, <<"@", "a", "p", "i", "P", "e", "r", "m", "i", "s", "s", "i", "o", "n">>, <<"\"", "\"", "\"">>>>

\* the part of C20 that holds for the multi-section descriptor: empty lists
\* of items in place of none
C20_EmptyItemList ==
    ( /\ mu_state # "none"
      /\ MulLegalBase(mu_args)
      /\ mu_args.mul_items = PyList(<<>>)
      /\ mu_args.desc = <<>> /\ mu_args.group = <<>> )
        => /\ mu_state \in {"constructed", "doc_returned"}
           /\ mu_state = "doc_returned"
                 => [i \in 1..Len(MulDocRows) - 1 |-> RowWord(MulDocRows[i + 1])]
                      = <<<<"\"", "\"", "\"">>, <<"@", "a", "p", "i">>, <<"@", "a", "p", "i", "P", "e", "r", "m", "i", "s", "s", "i", "o", "n">>, <<"\"", "\"", "\"">>>>

\* the part of C20 about the single-section descriptor: built with path,
\* method, title and permission only it is constructed, and its doc has the
\* delimiters, the declaration line and the permission line only
C20_SingleSection ==
    ( /\ fo_state # "none"
      /\ fo_args = [PlainArgs EXCEPT !.path = fo_args.path, !.method = fo_args.method,
                                     !.perm = fo_args.perm]
      /\ MulLegalBase(fo_args) )
        => /\ fo_state \in {"constructed", "doc_returned"}
           /\ fo_state = "doc_returned"
                 => [i \in 1..Len(DocRows) - 1 |-> RowWord(DocRows[i + 1])]
                      = <<<<"\"", "\"", "\"">>, <<"@", "a", "p", "i">>, <<"@", "a", "p", "i", "P", "e", "r", "m", "i", "s", "s", "i", "o", "n">>, <<"\"", "\"", "\"">>>>

\* ---------------------------------------------------------------------------
\* Claims about doc as a function of the descriptor
\* ---------------------------------------------------------------------------

\* C21: doc is a function of the fields of the descriptor: for the fields of
\* a descriptor there is one text that a read of doc returns, also when
\* names of a parameter mapping share their sort token.
C21_DocIsFunction ==
    fo_state = "doc_returned"
        => \A r \in Formatter_doc_outcomes(fo_self) : r.text = fo_doc.v

\* the part of C21 that holds: the descriptors without two lines of one sort
\* token in a section
C21_DistinctTokens ==
    (fo_state = "doc_returned" /\ fo_args.params \notin SameTokenPayloads)
        => \A r \in Formatter_doc_outcomes(fo_self) : r.text = fo_doc.v

\* ---------------------------------------------------------------------------
\* Claims about paths of separators and queries
\* ---------------------------------------------------------------------------

\* C30: construction fails with NotLegalPathError exactly when the path,
\* its runs of '/' collapsed, does not begin with '/' followed by a character
\* other than '?': a path of separators and a query string only is rejected.
C30_BarePathRejected ==
    fo_state # "none"
        => ((fo_state = "failed" /\ fo_exc = "NotLegalPathError")
               <=> ~PathAccepted(fo_args.path))

C30_Witness ==
    /\ fo_state = "failed"
    /\ fo_exc = "NotLegalPathError"
    /\ fo_args.path = <<"/", "?", "x", "=", "1">>

C30_WitnessSeparators ==
    /\ fo_state = "failed"
    /\ fo_exc = "NotLegalPathError"
    /\ fo_args.path = <<"/", "/", "/">>

\* ---------------------------------------------------------------------------
\* Further claims about the Flattener and the Collapser
\* ---------------------------------------------------------------------------

\* the types the data model names
IsModelType(value) ==
    value.k \in {"bool", "int", "float", "str", "list", "tuple", "dict"}

\* C25: a node of another type than boolean, number, string, sequence and
\* mapping (a null) is recorded at its path with the empty mapping.
C25_OtherTypeIsEmptyMapping ==
    fm_state = "read"
        => \A q \in PathsOf(fm_nest) :
              ~IsModelType(NodeAt(fm_nest, q))
                  => /\ Dotted(q) \in DOMAIN fm_flat
                     /\ fm_flat[Dotted(q)] = PyDict(<<>>)

\* what holds in place of C25: a null is recorded at its path as a null
C25_NullIsNull ==
    fm_state = "read"
        => \A q \in PathsOf(fm_nest) :
              NodeAt(fm_nest, q) = PyNone
                  => /\ Dotted(q) \in DOMAIN fm_flat
                     /\ fm_flat[Dotted(q)] = PyNone

\* the keys are strings and no node is a tuple
StringKeyed(value) ==
    /\ \A key \in AllKeys(value) : key.k = "str"
    /\ \A node \in AllNodes(value) : node.k # "tuple"

\* no key holds a double quote or a backslash
PlainQuoted(value) ==
    \A key \in AllKeys(value) : Range(key.v) \cap {"\"", "\\"} = {}

\* C26: for a mapping whose keys are strings, with double quotes,
\* backslashes or brackets in them or not, reading single returns the
\* reference collapsed tree, and the keys act as lookup keys only: nothing
\* but the result is written, the caller's object holds what it held.
C26_KeysAreData ==
    (sm_state \in {"returned", "raised"} /\ sm_arg.k = "dict" /\ StringKeyed(sm_arg))
        => /\ sm_state = "returned"
           /\ DictEq(sm_ret, Collapsed(sm_arg))
           /\ sm_inp = sm_arg

\* the part of C26 that holds: the keys without a double quote and without
\* a backslash
C26_PlainKeys ==
    ( /\ sm_state \in {"returned", "raised"}
      /\ sm_arg.k = "dict"
      /\ StringKeyed(sm_arg)
      /\ PlainQuoted(sm_arg) )
        => /\ sm_state = "returned"
           /\ DictEq(sm_ret, Collapsed(sm_arg))
           /\ sm_inp = sm_arg

\* the keys are strings without the separator
NoDotKeys(value) ==
    \A key \in AllKeys(value) : key.k = "str" /\ "." \notin Range(key.v)

\* C27: for every mapping t whose keys hold no '.', collapsing t returns and
\* the Flattener gives for the collapsed tree what it gives for t.
C27_FlattenCommutes ==
    (sm_state \in {"returned", "raised"} /\ sm_arg.k = "dict" /\ NoDotKeys(sm_arg))
        => /\ sm_state = "returned"
           /\ (fm_state = "read" /\ fm_arg = sm_ret)
                 => fm_flat = FlatMap_recur_map(<<>>, sm_arg, EmptyMap)

\* the part of C27 that holds: whenever the collapsed tree is the reference
\* one, its flattening is the flattening of t
C27_WhenCollapsed ==
    ( /\ sm_state = "returned"
      /\ NoDotKeys(sm_arg)
      /\ DictEq(sm_ret, Collapsed(sm_arg))
      /\ fm_state = "read"
      /\ fm_arg = sm_ret )
        => fm_flat = FlatMap_recur_map(<<>>, sm_arg, EmptyMap)

\* a collapsed tree that differs from t was flattened
C27_WitnessCollapsed ==
    /\ sm_state = "returned"
    /\ NoDotKeys(sm_arg)
    /\ DictEq(sm_ret, Collapsed(sm_arg))
    /\ ~DictEq(sm_ret, sm_arg)
    /\ fm_state = "read"
    /\ fm_arg = sm_ret
    /\ fm_flat # EmptyMap

\* the step is a read of flat
IsFlatRead == fm_state' = "read" /\ fm_nest' = fm_nest /\ fm_seen' = fm_nest

\* C28: no step takes a key out of the result of a FlatMap; a read after an
\* earlier read of the same content gives the identical result; a read after
\* the caller changed the mapping still holds every key the flattening of
\* the earlier content has, those of a removed key among them.
C28_FlatOnlyGrows ==
    [][ (fm_state \in {"ready", "read"})
           => /\ DOMAIN fm_flat \subseteq DOMAIN fm_flat'
              /\ (fm_state = "read" /\ IsFlatRead /\ fm_seen = fm_nest)
                    => fm_flat' = fm_flat
              /\ (fm_state = "read" /\ IsFlatRead)
                    => DOMAIN FlatMap_recur_map(<<>>, fm_seen, EmptyMap)
                         \subseteq DOMAIN fm_flat' ]_vars

\* flat was read, the caller removed a key, and flat was read again: the
\* result holds a path the mapping no longer has
C28_Witness ==
    /\ fm_state = "read"
    /\ fm_seen = fm_nest
    /\ Len(fm_nest.v) < Len(fm_arg.v)
    /\ \E name \in DOMAIN fm_flat :
          name \notin {Dotted(q) : q \in PathsOf(fm_nest)}

\* ---------------------------------------------------------------------------
\* Claims about the DocUnit
\* ---------------------------------------------------------------------------

\* a str other than the empty one
IsNonEmptyStr(value) == value.k = "str" /\ value.v # <<>>

\* C24: constructing a DocUnit with a name or a domain that is the empty
\* string or not a string fails with InvalidValueError, the name being
\* checked before the domain, so that the error names the name whenever the
\* name is bad; a non-empty string name with a non-empty string domain is
\* accepted and the unit starts with an empty set of doc blocks
C24_ConstructorValidation ==
    du_state # "none" =>
        /\ ~IsNonEmptyStr(du_args.name)
              => /\ du_state = "failed"
                 /\ du_exc = "InvalidValueError"
                 /\ du_msg = <<"n", "a", "m", "e">>
        /\ (IsNonEmptyStr(du_args.name) /\ ~IsNonEmptyStr(du_args.domain))
              => /\ du_state = "failed"
                 /\ du_exc = "InvalidValueError"
                 /\ du_msg = <<"d", "o", "m", "a", "i", "n">>
        /\ (IsNonEmptyStr(du_args.name) /\ IsNonEmptyStr(du_args.domain))
              => /\ du_state # "failed"
                 /\ du_state = "constructed"
                       => du_self.doc_methods = {} /\ du_produced = {}

\* a name that is no string with a domain that is none: the name is reported
C24_Witness ==
    /\ du_state = "failed"
    /\ du_args.name = PyInt(1)
    /\ du_args.domain = PyNone
    /\ du_exc = "InvalidValueError"
    /\ du_msg = <<"n", "a", "m", "e">>

\* a unit that was accepted and holds no block
C24_WitnessAccepted ==
    /\ du_state = "constructed"
    /\ IsNonEmptyStr(du_args.name)
    /\ IsNonEmptyStr(du_args.domain)
    /\ du_self.doc_methods = {}

\* the unit exists: the constructor returned
UnitAlive == du_state \in {"constructed", "returned", "raised", "output"}

\* the exceptions of a descriptor that could not be built: an illegal path,
\* a success payload that is no mapping, a permission that is no member
BuildErrors == {"NotLegalPathError", "ParamsTypeError", "EnumMemberError"}

\* C23: the set of doc blocks of a DocUnit changes only in a step in which
\* get or post returns, and such a step adds the returned block and nothing
\* else, so at most one block; a get or post that raises, as it does for an
\* illegal path, a success payload that is no mapping or an invalid
\* permission, leaves the set as it was and with it the output
C23_BlocksFrame ==
    [][ UnitAlive =>
          /\ du_self'.doc_methods # du_self.doc_methods
                => /\ du_state' = "returned"
                   /\ Cardinality(du_self'.doc_methods) = Cardinality(du_self.doc_methods) + 1
          /\ du_state' = "returned"
                => /\ du_self'.doc_methods = du_self.doc_methods \cup {du_ret'.v}
                   /\ Cardinality(du_produced' \ du_produced) <= 1
          /\ du_state' \in {"raised", "output"}
                => /\ du_self'.doc_methods = du_self.doc_methods
                   /\ DocUnit_output_code(du_self') = DocUnit_output_code(du_self) ]_vars

\* a call failed on a success payload that is no mapping when the unit held
\* two blocks
C23_Witness ==
    /\ du_state = "raised"
    /\ du_exc = "ParamsTypeError"
    /\ Cardinality(du_self.doc_methods) = 2

\* calls failed on an illegal path and on an invalid permission
C23_WitnessPath ==
    /\ du_state = "raised"
    /\ du_exc = "NotLegalPathError"
    /\ du_self.doc_methods # {}

C23_WitnessPermission ==
    /\ du_state = "raised"
    /\ du_exc = "EnumMemberError"
    /\ du_self.doc_methods # {}

\* a call returned a block the unit held already
C23_WitnessRepeated ==
    /\ du_state = "returned"
    /\ Cardinality(du_produced) > Cardinality(du_self.doc_methods)

\* the distinct blocks the calls of get and post returned
BlocksProduced == {r.doc : r \in du_produced}

\* the blocks of a set one after the other, each before every greater one
InOrder(S) ==
    CHOOSE s \in [1..Cardinality(S) -> S] :
        \A i, j \in 1..Cardinality(S) : i < j => StrLess(s[i], s[j])

\* the text between two blocks
BlockSeparator == <<"\n", "\n", " ", " ", " ", " ">> \o <<"@", "s", "t", "a", "t", "i", "c", "m", "e", "t", "h", "o", "d">> \o <<"\n">>

\* C22: after any get and post calls that returned, output of the unit named
\* user is the class statement followed by every distinct block the calls
\* returned, each once, in the ascending order of the blocks, which the set
\* of blocks fixes whatever the order of the calls, with the '@staticmethod'
\* separator between consecutive blocks
C22_OutputOfBlocks ==
    (du_state = "output" /\ du_args.name = PyStr(<<"u", "s", "e", "r">>))
        => du_ret = PyStr(<<"c", "l", "a", "s", "s", " ", "A", "p", "i", "D", "o", "c", "U", "s", "e", "r", "(", "o", "b", "j", "e", "c", "t", ")", ":">>
                            \o Join(InOrder(BlocksProduced), BlockSeparator))

\* output was read on a unit whose calls returned three different blocks
C22_Witness ==
    /\ du_state = "output"
    /\ Cardinality(BlocksProduced) = 3

\* output was read after three calls that returned two different blocks
C22_WitnessRepeated ==
    /\ du_state = "output"
    /\ Cardinality(du_produced) = 3
    /\ Cardinality(BlocksProduced) = 2

\* ---------------------------------------------------------------------------
\* Claims about the stub declaration and the method
\* ---------------------------------------------------------------------------

\* the first row of a returned doc
DeclarationOf(doc) == Split(doc, "\n")[1]

\* the Get and the Post descriptor of the path were both asked and agree
SameStub(stubs) ==
    (stubs[RequestMethod_Get].k = "str" /\ stubs[RequestMethod_Post].k = "str")
        => stubs[RequestMethod_Get] = stubs[RequestMethod_Post]

C29_FormatsIgnoresMethod == SameStub(fs_stub)

\* both descriptors of formats were asked for a legal path
C29_WitnessFormats ==
    /\ fs_path = PyStr(<<"/", "u", "s", "e", "r", "s", "/", "l", "i", "s", "t">>)
    /\ fs_stub[RequestMethod_Get] = PyStr(<<"d", "e", "f", " ", "u", "s", "e", "r", "s", "_", "l", "i", "s", "t", "(", ")", " ", "-", ">", " ", "N", "o", "n", "e", ":">>)
    /\ fs_stub[RequestMethod_Post] = PyStr(<<"d", "e", "f", " ", "u", "s", "e", "r", "s", "_", "l", "i", "s", "t", "(", ")", " ", "-", ">", " ", "N", "o", "n", "e", ":">>)

\* format.Formatter puts the method in the name
C29_WitnessLegacy ==
    /\ fs_path = PyStr(<<"/", "u", "s", "e", "r", "s", "/", "l", "i", "s", "t">>)
    /\ fs_legacy[RequestMethod_Get] = PyStr(<<"d", "e", "f", " ", "u", "s", "e", "r", "s", "_", "l", "i", "s", "t", "_", "g", "e", "t", "(", ")", " ", "-", ">", " ", "N", "o", "n", "e", ":">>)
    /\ fs_legacy[RequestMethod_Post] = PyStr(<<"d", "e", "f", " ", "u", "s", "e", "r", "s", "_", "l", "i", "s", "t", "_", "p", "o", "s", "t", "(", ")", " ", "-", ">", " ", "N", "o", "n", "e", ":">>)

\* the part of C29 about the unit: two blocks a DocUnit was returned for
\* paths that normalise to the same path declare the same function, and are
\* different blocks when the methods differ
C29_UnitHoldsBoth ==
    \A a, b \in du_produced :
        fixed_path(a.path).path = fixed_path(b.path).path
            => /\ DeclarationOf(a.doc) = DeclarationOf(b.doc)
               /\ a.method # b.method => a.doc # b.doc
               /\ {a.doc, b.doc} \subseteq du_self.doc_methods

\* a unit documented the Get and the Post of one path
C29_WitnessUnit ==
    \E a, b \in du_produced :
        /\ a.method = RequestMethod_Get
        /\ b.method = RequestMethod_Post
        /\ a.path = b.path
        /\ a.doc # b.doc
        /\ DeclarationOf(a.doc) = DeclarationOf(b.doc)
        /\ {a.doc, b.doc} \subseteq du_self.doc_methods

====
